---- MODULE Spec2Model ----
(***************************************************************************)
(* A model of the class IonQAPIservice (IonQAPIservice.py): job identifier *)
(* validation, circuit validation, OPENQASM translation, construction, job *)
(* submission, retrieval and cancellation, and the reconciliation of a raw *)
(* result histogram.                                                       *)
(*                                                                         *)
(* Text is modelled as a sequence of one-character strings, so that        *)
(* strip, split, count and len are computed as Python computes them.       *)
(***************************************************************************)
EXTENDS Integers, Sequences, FiniteSets, TLC

VARIABLES
    idphase,    \* position of the identifier check: "input" or "done"
    idstr,      \* the string handed to validate_jobid_hash
    idedits,    \* number of edits applied to the string so far
    idres,      \* what validate_jobid_hash returned
    vphase,     \* position of the caller of validate_circuit
    callerCircuit, \* the caller's list of circuit entries
    freeUsed,   \* whether the list already holds an entry of FreeEntries
    vin,        \* the list as it was handed to validate_circuit
    vres,       \* what validate_circuit returned
    vres2,      \* what validate_circuit returned for the returned circuit
    qphase,     \* position of the caller of translate_qasm
    qprog,      \* the list of statement lines handed to translate_qasm
    qadded,     \* number of lines appended after the opening lines
    qbody,      \* what translate_qasm returned
    qres,       \* what validate_circuit returned for the translated circuit
    rphase,     \* position of the reconciliation: "build" or "done"
    rdata,      \* the raw histogram of a completed job
    rshots,     \* the job's shot count
    rqubits,    \* the job's qubit count
    rres,       \* the results built from the histogram
    svc,            \* the remote service: the status of each job
    last_jobid_dict, \* the last-referenced-job slot of the client
    pc,             \* position of the client: "idle", inside a call, or "done"
    call,           \* the user call in progress or last made
    curid,          \* the identifier retrieve_job or cancel_job works on
    wait_minutes,   \* the poll budget left in retrieve_job
    flg_waitprint,  \* whether the wait notice is still to be printed
    netlog,         \* the requests sent since the user call began, as a set
    sleeps,         \* time.sleep calls of the current retrieve_job
    nfetch,         \* status requests of the current retrieve_job
    batch,          \* the loop state of a ..._multiple_jobs call
    ret,            \* what the last user call returned
    api,            \* what __init__ left behind: "no_token", "rejected" or "ok"
    sub             \* the circuits of a submit call and the records so far

idvars == <<idphase, idstr, idedits, idres>>

vvars == <<vphase, callerCircuit, freeUsed, vin, vres, vres2>>

qvars == <<qphase, qprog, qadded, qbody, qres>>

rvars == <<rphase, rdata, rshots, rqubits, rres>>

jvars == <<svc, last_jobid_dict, pc, call, curid, wait_minutes, flg_waitprint,
           netlog, sleeps, nfetch, batch, ret>>

svars == <<api, sub>>

vars == <<idvars, vvars, qvars, rvars, jvars, svars>>

(***************************************************************************)
(* Bounds of the model.                                                    *)
(***************************************************************************)
MaxEdits == 1

\* the longest circuit handed to validate_circuit
MaxEntries == 2

\* the longest target list and the longest control list of an entry
MaxTargets == 3

MaxControls == 2

\* the most statement lines appended after the opening lines of a program
MaxBody == 3

\* the most states in a raw histogram, the largest shot count, the largest
\* qubit count and the largest raw count of a state
MaxStates == 2

MaxShots == 3

MaxQubits == 2

MaxCount == 3

\* the wait_minutes argument of a call that waits (the other calls pass 0)
\* and the longest list of identifiers handed to a ..._multiple_jobs call
MaxWait == 1

MaxBatch == 2

(***************************************************************************)
(* Helpers on sequences.                                                   *)
(***************************************************************************)
Rep(c, n) == [i \in 1..n |-> c]

Range(s) == {s[i] : i \in 1..Len(s)}

\* str.count(ch) for a one-character ch
Count(s, ch) == Cardinality({i \in 1..Len(s) : s[i] = ch})

\* the whitespace characters str.strip() removes
Whitespace == {" ", "\t"}

RECURSIVE LStrip(_)
LStrip(s) == IF s # <<>> /\ Head(s) \in Whitespace THEN LStrip(Tail(s)) ELSE s

RECURSIVE RStrip(_)
RStrip(s) ==
    IF s # <<>> /\ s[Len(s)] \in Whitespace
    THEN RStrip(SubSeq(s, 1, Len(s) - 1)) ELSE s

\* str.strip()
Strip(s) == RStrip(LStrip(s))

\* str.split(sep) for a one-character sep: the pieces between separators
RECURSIVE SplitAcc(_, _, _)
SplitAcc(s, sep, cur) ==
    IF s = <<>> THEN <<cur>>
    ELSE IF Head(s) = sep THEN <<cur>> \o SplitAcc(Tail(s), sep, <<>>)
    ELSE SplitAcc(Tail(s), sep, Append(cur, Head(s)))

Split(s, sep) == SplitAcc(s, sep, <<>>)

Min(a, b) == IF a < b THEN a ELSE b

(***************************************************************************)
(* validate_jobid_hash                                                     *)
(***************************************************************************)
\* the characters the loop over a group accepts: [*'1234567890abcdef']
HexChars == {"1", "2", "3", "4", "5", "6", "7", "8", "9", "0",
             "a", "b", "c", "d", "e", "f"}

hashlen == <<8, 4, 4, 4, 12>>

IdError == [error |-> TRUE, id |-> <<>>]

\* the checks without the test of the length of each group
HashCheckNoLen(id) ==
    IF Len(id) # 36 \/ Count(id, "-") # 4 THEN IdError
    ELSE LET vals == Split(id, "-")
             n    == Min(Len(hashlen), Len(vals))
         IN  IF \E k \in 1..n :
                    \E i \in 1..Len(vals[k]) : vals[k][i] \notin HexChars
             THEN IdError
             ELSE [error |-> FALSE, id |-> id]

\* the checks made once the identifier text `id` has been extracted
HashCheck(id) ==
    IF Len(id) # 36 \/ Count(id, "-") # 4 THEN IdError
    ELSE LET vals == Split(id, "-")
             n    == Min(Len(hashlen), Len(vals))
         IN  IF \E k \in 1..n :
                    \/ Len(vals[k]) # hashlen[k]
                    \/ \E i \in 1..Len(vals[k]) : vals[k][i] \notin HexChars
             THEN IdError
             ELSE [error |-> FALSE, id |-> id]

\* jobid is [type |-> "str", id |-> text], [type |-> "dict", haskey |-> .., id |-> text]
\* or [type |-> "other"]
validate_jobid_hash(jobid) ==
    IF jobid.type = "dict"
    THEN IF ~jobid.haskey THEN IdError ELSE HashCheck(jobid.id)
    ELSE IF jobid.type = "str" THEN HashCheck(Strip(jobid.id))
    ELSE IdError

StrArg(s) == [type |-> "str", haskey |-> FALSE, id |-> s, ids |-> <<>>]

DictArg(s) == [type |-> "dict", haskey |-> TRUE, id |-> s, ids |-> <<>>]

(***************************************************************************)
(* Gate tables (set in __init__).                                          *)
(***************************************************************************)
gates_1q ==
    [h |-> "h", i |-> "id", id |-> "id", p |-> "z", rx |-> "rx", ry |-> "ry",
     rz |-> "rz", not |-> "x", s |-> "s", sdg |-> "si", sx |-> "v",
     sxdg |-> "vi", t |-> "t", tdg |-> "ti", x |-> "x", y |-> "y", z |-> "z"]

gates_2q_ctl ==
    [ch |-> "h", cnot |-> "x", cp |-> "z", crx |-> "rx", cry |-> "ry",
     crz |-> "rz", cx |-> "x", cy |-> "y", cz |-> "z", csx |-> "v",
     cv |-> "v", csxdg |-> "vi", cvi |-> "vi"]

gates_2q_noctl == [rxx |-> "xx", ryy |-> "yy", rzz |-> "zz", swap |-> "swap"]

gates_mq ==
    [mcp |-> "z", mcphase |-> "z", mct |-> "t", ccx |-> "x", c3x |-> "x",
     c4x |-> "x", mcx |-> "x", mcx_gray |-> "x", toffoli |-> "x"]

\* dict.keys() and dict.values()
Keys(d) == DOMAIN d

Values(d) == {d[k] : k \in DOMAIN d}

\* one step (gate, targets, controls, parameters) of a macro body; the
\* indices are positions (from 0) in the list targets + controls
MacroOp(g, t, c, p) == [g |-> g, t |-> t, c |-> c, p |-> p]

\* angles are written in units of pi/2
HalfPi == 1

SevenHalfPi == 7

\* gates_special[name] = [targets, controls, parameters, body]
gates_special ==
    [sswap |-> [tgt |-> <<0, 1>>, ctl |-> <<>>, par |-> <<>>, body |->
        << MacroOp("x", <<1>>, <<0>>, <<>>), MacroOp("v", <<0>>, <<1>>, <<>>),
           MacroOp("x", <<1>>, <<0>>, <<>>) >>],
     iswap |-> [tgt |-> <<0, 1>>, ctl |-> <<>>, par |-> <<>>, body |->
        << MacroOp("s", <<0>>, <<>>, <<>>), MacroOp("s", <<1>>, <<>>, <<>>),
           MacroOp("h", <<0>>, <<>>, <<>>), MacroOp("x", <<1>>, <<0>>, <<>>),
           MacroOp("x", <<0>>, <<1>>, <<>>), MacroOp("h", <<1>>, <<>>, <<>>) >>],
     siswap |-> [tgt |-> <<0, 1>>, ctl |-> <<>>, par |-> <<>>, body |->
        << MacroOp("v", <<0>>, <<>>, <<>>), MacroOp("v", <<1>>, <<>>, <<>>),
           MacroOp("rz", <<0>>, <<>>, <<HalfPi>>),
           MacroOp("x", <<1>>, <<0>>, <<>>),
           MacroOp("v", <<0>>, <<>>, <<>>), MacroOp("v", <<1>>, <<>>, <<>>),
           MacroOp("rz", <<0>>, <<>>, <<SevenHalfPi>>),
           MacroOp("rz", <<1>>, <<>>, <<SevenHalfPi>>),
           MacroOp("v", <<0>>, <<>>, <<>>),
           MacroOp("rz", <<0>>, <<>>, <<HalfPi>>),
           MacroOp("x", <<1>>, <<0>>, <<>>),
           MacroOp("v", <<0>>, <<>>, <<>>) >>],
     cswap |-> [tgt |-> <<0, 1>>, ctl |-> <<0>>, par |-> <<>>, body |->
        << MacroOp("x", <<1>>, <<0>>, <<>>), MacroOp("x", <<0>>, <<1, 2>>, <<>>),
           MacroOp("x", <<1>>, <<0>>, <<>>) >>]]

(***************************************************************************)
(* Circuit entries.  A Python dict entry is a record that says, for the    *)
(* gate, the target, the control and the parameter, under which key it is  *)
(* stored ("none" when the key is absent) and what the value is; a value   *)
(* says whether it is a Python list and holds its items (a scalar holds    *)
(* one item).                                                              *)
(***************************************************************************)
Scalar(x) == [list |-> FALSE, v |-> <<x>>]

List(xs) == [list |-> TRUE, v |-> xs]

NoVal == [list |-> FALSE, v |-> <<>>]

Entry(gk, g, tk, t, ck, c, pk, p) ==
    [gkey |-> gk, gate |-> g, tkey |-> tk, t |-> t,
     ckey |-> ck, c |-> c, pkey |-> pk, p |-> p]

\* the dict {"gate": g, "targets": tv [, "controls": cv] [, "parameters": pv]}
Op(g, tv, cv, pv) ==
    Entry("gate", g, "targets", List(tv),
          IF Len(cv) > 0 THEN "controls" ELSE "none",
          IF Len(cv) > 0 THEN List(cv) ELSE NoVal,
          IF Len(pv) > 0 THEN "parameters" ELSE "none",
          IF Len(pv) > 0 THEN List(pv) ELSE NoVal)

(***************************************************************************)
(* validate_circuit                                                        *)
(***************************************************************************)
\* the result {"error": message}; the messages name the entry index j and
\* the gate, which are kept as fields
VError(msg, j, g) ==
    [error |-> TRUE, msg |-> msg, index |-> j, gate |-> g,
     circuit |-> <<>>, updated_entries |-> <<>>]

\* the result {'circuit': valid_circ, 'updated_entries': updates}
VOk(valid_circ, updates) ==
    [error |-> FALSE, msg |-> "", index |-> -1, gate |-> "",
     circuit |-> valid_circ, updated_entries |-> updates]

\* a flag that is also raised by a "targets" field that holds a list
ShapeFlagAnyTargets(entry) ==
    \/ entry.tkey = "target" /\ entry.t.list
    \/ entry.tkey = "targets"
    \/ entry.ckey = "control" /\ entry.c.list
    \/ entry.ckey = "controls" /\ ~entry.c.list
    \/ entry.pkey \in {"parameters", "rotations"} /\ ~entry.p.list

\* flg_update after the target, control and parameter fields have been read
ShapeFlag(entry) ==
    \/ entry.tkey = "target" /\ entry.t.list
    \/ entry.tkey = "targets" /\ ~entry.t.list
    \/ entry.ckey = "control" /\ entry.c.list
    \/ entry.ckey = "controls" /\ ~entry.c.list
    \/ entry.pkey \in {"parameters", "rotations"} /\ ~entry.p.list

\* the expansion of the special gate mygate over qbits = tgt_vals + ctl_vals
ExpandSpecial(mygate, qbits) ==
    LET qgates == gates_special[mygate].body
    IN  [k \in 1..Len(qgates) |->
            Op(qgates[k].g,
               [i \in 1..Len(qgates[k].t) |-> qbits[qgates[k].t[i] + 1]],
               [i \in 1..Len(qgates[k].c) |-> qbits[qgates[k].c[i] + 1]],
               qgates[k].p)]

Classified(g, tv, cv, upd) == [err |-> "", gate |-> g, tgt |-> tv, ctl |-> cv, upd |-> upd]

Unclassified(msg) == [err |-> msg, gate |-> "", tgt |-> <<>>, ctl |-> <<>>, upd |-> FALSE]

\* the reclassification of the gate name by the number of targets and controls
Reclassify(mygate, tgt_vals, ctl_vals) ==
    IF Len(tgt_vals) > 1 THEN
        IF mygate \in Values(gates_2q_noctl)
        THEN Classified(mygate, tgt_vals, ctl_vals, FALSE)
        ELSE IF mygate \in Keys(gates_2q_noctl)
        THEN Classified(gates_2q_noctl[mygate], tgt_vals, ctl_vals, TRUE)
        ELSE Unclassified("is not a valid gate with 2 targets")
    ELSE IF Len(ctl_vals) > 1 THEN
        IF mygate \in Values(gates_mq)
        THEN Classified(mygate, tgt_vals, ctl_vals, FALSE)
        ELSE IF mygate \in Keys(gates_mq)
        THEN Classified(gates_mq[mygate], tgt_vals, ctl_vals, TRUE)
        ELSE Unclassified("is not a valid multi-qubit gate")
    ELSE IF Len(ctl_vals) = 1 THEN
        IF mygate \in Values(gates_2q_ctl)
        THEN Classified(mygate, tgt_vals, ctl_vals, FALSE)
        ELSE IF mygate \in Keys(gates_2q_ctl)
        THEN Classified(gates_2q_ctl[mygate], tgt_vals, ctl_vals, TRUE)
        ELSE IF mygate \in Values(gates_2q_noctl) \/ mygate \in Keys(gates_2q_noctl)
        THEN Classified(IF mygate \notin Values(gates_2q_noctl)
                        THEN gates_2q_noctl[mygate] ELSE mygate,
                        tgt_vals \o ctl_vals, <<>>, TRUE)
        ELSE Unclassified("does not have 'target' and 'control' qubits")
    ELSE
        IF mygate \in Values(gates_1q)
        THEN Classified(mygate, tgt_vals, ctl_vals, FALSE)
        ELSE IF mygate \in Keys(gates_1q)
        THEN Classified(gates_1q[mygate], tgt_vals, ctl_vals, TRUE)
        ELSE Unclassified("is not a one-qubit gate")

EntryError(msg) == [kind |-> "error", msg |-> msg, ops |-> <<>>, upd |-> FALSE]

\* the arity test made for a special gate
SpecialArityWrong(mygate, tgt_vals, ctl_vals) ==
    \/ Len(gates_special[mygate].tgt) # Len(tgt_vals)
    \/ Len(gates_special[mygate].ctl) # Len(ctl_vals)

\* a branch that drops a special gate of the wrong arity and goes on
SpecialStepLenient(mygate, tgt_vals, ctl_vals) ==
    IF SpecialArityWrong(mygate, tgt_vals, ctl_vals)
    THEN [kind |-> "skip", msg |-> "", ops |-> <<>>, upd |-> FALSE]
    ELSE [kind |-> "ops", msg |-> "",
          ops |-> ExpandSpecial(mygate, tgt_vals \o ctl_vals), upd |-> TRUE]

\* the branch taken for a special gate: an error, or its expansion
SpecialStep(mygate, tgt_vals, ctl_vals) ==
    IF SpecialArityWrong(mygate, tgt_vals, ctl_vals)
    THEN EntryError("special gate has wrong number of 'targets' and/or 'controls'")
    ELSE [kind |-> "ops", msg |-> "",
          ops |-> ExpandSpecial(mygate, tgt_vals \o ctl_vals), upd |-> TRUE]

\* an emission that rewrites the entry without recording its index
EmitUnrecorded(entry, cl) ==
    IF ShapeFlag(entry) \/ cl.upd
    THEN [kind |-> "ops", msg |-> "",
          ops |-> <<Op(cl.gate, cl.tgt, cl.ctl, <<>>)>>, upd |-> FALSE]
    ELSE [kind |-> "ops", msg |-> "", ops |-> <<entry>>, upd |-> FALSE]

\* what a classified entry adds to valid_circ: the rewritten operation with
\* its index recorded, or the entry as it came
Emit(entry, cl) ==
    IF ShapeFlag(entry) \/ cl.upd
    THEN [kind |-> "ops", msg |-> "",
          ops |-> <<Op(cl.gate, cl.tgt, cl.ctl, <<>>)>>, upd |-> TRUE]
    ELSE [kind |-> "ops", msg |-> "", ops |-> <<entry>>, upd |-> FALSE]

\* one pass of the loop body over circuit entry `entry`: an error, a
\* skipped entry, or the operations appended to valid_circ
EntryStep(entry) ==
    IF entry.gkey = "notdict" THEN EntryError("is not dictionary")
    ELSE IF entry.gkey # "gate"
    THEN [kind |-> "skip", msg |-> "", ops |-> <<>>, upd |-> FALSE]
    ELSE IF entry.tkey = "none" THEN EntryError("has no 'target'")
    ELSE LET mygate   == entry.gate
             tgt_vals == entry.t.v
             ctl_vals == IF entry.ckey = "none" THEN <<>> ELSE entry.c.v
         IN  IF mygate \in Keys(gates_special)
             THEN SpecialStep(mygate, tgt_vals, ctl_vals)
             ELSE LET cl == Reclassify(mygate, tgt_vals, ctl_vals)
                  IN  IF cl.err # "" THEN EntryError(cl.err)
                      ELSE Emit(entry, cl)

\* tgt_vals.extend(ctl_vals) acts on the entry's own list when the entry
\* stores its target as a list: the entry as the caller sees it afterwards
EntryAfter(entry) ==
    IF /\ entry.gkey = "gate" /\ entry.tkey # "none" /\ entry.t.list
       /\ entry.gate \notin Keys(gates_special)
       /\ Len(entry.t.v) <= 1
       /\ entry.ckey # "none" /\ Len(entry.c.v) = 1
       /\ entry.gate \notin Values(gates_2q_ctl)
       /\ entry.gate \notin Keys(gates_2q_ctl)
       /\ (entry.gate \in Values(gates_2q_noctl) \/ entry.gate \in Keys(gates_2q_noctl))
    THEN [entry EXCEPT !.t = List(entry.t.v \o entry.c.v)]
    ELSE entry

\* the loop over the entries, from index j (counted from 0); cur is the
\* caller's list as the loop has left it so far
RECURSIVE ValidateLoop(_, _, _, _)
ValidateLoop(cur, j, valid_circ, updates) ==
    IF j = Len(cur)
    THEN [res |-> IF Len(valid_circ) = 0
                  THEN VError("'circuit' contains no Gates", -1, "")
                  ELSE VOk(valid_circ, updates),
          input |-> cur]
    ELSE LET entry == cur[j + 1]
             st    == EntryStep(entry)
         IN  IF st.kind = "error"
             THEN [res |-> VError(st.msg, j,
                                  IF entry.gkey = "gate" THEN entry.gate ELSE ""),
                   input |-> cur]
             ELSE ValidateLoop([cur EXCEPT ![j + 1] = EntryAfter(entry)], j + 1,
                               valid_circ \o st.ops,
                               IF st.upd THEN Append(updates, j) ELSE updates)

\* what validate_circuit(circuit) returns
validate_circuit(circuit) == ValidateLoop(circuit, 0, <<>>, <<>>).res

\* the caller's list after validate_circuit(circuit) has returned
validate_circuit_input(circuit) == ValidateLoop(circuit, 0, <<>>, <<>>).input

(***************************************************************************)
(* translate_qasm on a list of statement lines.                            *)
(*                                                                         *)
(* A line is the sequence of its words (line.split(" ")); a word is the    *)
(* sequence of its comma-separated items (word.split(",")); an item is a   *)
(* name with an optional index, name[idx] (idx = -1 when there are no      *)
(* brackets).  Lines that define a custom gate are not among the inputs of *)
(* this model.                                                             *)
(***************************************************************************)
Item(name, idx) == [name |-> name, idx |-> idx]

Word(name) == <<Item(name, -1)>>

EmptyDict == [it \in {} |-> 0]

\* json.dumps({"body": {...}}), None, or an exception that leaves the call
QBody(nq, circ, meta) ==
    [kind |-> "body", exc |-> "", qubits |-> nq, circuit |-> circ, metadata |-> meta]

QNone == [kind |-> "None", exc |-> "", qubits |-> 0, circuit |-> <<>>,
          metadata |-> [qreg |-> <<>>, creg |-> <<>>, measure |-> <<>>]]

QRaise(exc) == [kind |-> "raise", exc |-> exc, qubits |-> 0, circuit |-> <<>>,
                metadata |-> [qreg |-> <<>>, creg |-> <<>>, measure |-> <<>>]]

\* the lines kept by the filter: not empty and not a // comment
RECURSIVE KeepLines(_)
KeepLines(lines) ==
    IF lines = <<>> THEN <<>>
    ELSE IF Head(lines) = <<>> \/ Head(lines)[1][1].name = "//"
    THEN KeepLines(Tail(lines))
    ELSE <<Head(lines)>> \o KeepLines(Tail(lines))

\* str.startswith(w) for a line whose first word is compared as a whole
FirstWord(line) == line[1][1].name

\* the dict and the key list built by a qreg or creg statement
RegDict(mylist) ==
    IF Len(mylist) = 1
    THEN [it \in {Item(mylist[1].name, j) : j \in 0..(mylist[1].idx - 1)} |-> it.idx]
    ELSE [it \in Range(mylist) |->
            CHOOSE j \in 0..(Len(mylist) - 1) :
                /\ mylist[j + 1] = it
                /\ \A k \in 0..(Len(mylist) - 1) : mylist[k + 1] = it => k <= j]

RegKeys(mylist) ==
    IF Len(mylist) = 1
    THEN [j \in 1..mylist[1].idx |-> Item(mylist[1].name, j - 1)]
    ELSE mylist

\* measuremap.update({qval: bval}) on the list of (qval, bval) pairs
MapUpdate(mm, qval, bval) ==
    IF \E k \in 1..Len(mm) : mm[k][1] = qval
    THEN [k \in 1..Len(mm) |-> IF mm[k][1] = qval THEN <<qval, bval>> ELSE mm[k]]
    ELSE Append(mm, <<qval, bval>>)

\* a bit value: an int, or the text of an index
BitInt(n) == [text |-> FALSE, n |-> n]

BitText(n) == [text |-> TRUE, n |-> n]

\* str.isdigit() and int(str) for the names the programs use
DigitValue == [d \in {"0", "1", "2", "3", "4", "5", "6", "7", "8", "9"} |->
                 CHOOSE n \in 0..9 : ToString(n) = d]

IsDigit(it) == it.idx < 0 /\ it.name \in DOMAIN DigitValue

\* the pairs of one measure statement, from pair k on: qval is
\* qname[q], the text of q's index, int(q) or -1; bval likewise from c,
\* with q's text where the code reads q for c
RECURSIVE MeasurePairs(_, _, _, _, _, _)
MeasurePairs(qlist, clist, k, qname, bname, st) ==
    IF k > Min(Len(qlist), Len(clist)) THEN st
    ELSE LET q == qlist[k]
             c == clist[k]
             bval == IF c \in DOMAIN bname THEN BitInt(bname[c])
                     ELSE IF c.idx >= 0 THEN BitText(q.idx)
                     ELSE IF IsDigit(c) /\ IsDigit(q) THEN BitInt(DigitValue[q.name])
                     ELSE BitInt(-1)
         IN  IF c \notin DOMAIN bname /\ c.idx >= 0 /\ q.idx < 0
             THEN [st EXCEPT !.exc = "IndexError"]
             ELSE IF c \notin DOMAIN bname /\ IsDigit(c) /\ ~IsDigit(q)
             THEN [st EXCEPT !.exc = "ValueError"]
             ELSE IF q \in DOMAIN qname
             THEN MeasurePairs(qlist, clist, k + 1, qname, bname,
                               [st EXCEPT !.measure = MapUpdate(@, qname[q], bval)])
             ELSE IF q.idx >= 0
             THEN [st EXCEPT !.exc = "TypeError"]
             ELSE IF IsDigit(q)
             THEN MeasurePairs(qlist, clist, k + 1, qname, bname,
                               [st EXCEPT !.measure =
                                    MapUpdate(@, DigitValue[q.name], bval)])
             ELSE MeasurePairs(qlist, clist, k + 1, qname, bname, st)

\* the first loop over the lines: register declarations and measurements
RECURSIVE DeclLoop(_, _, _)
DeclLoop(lines, k, st) ==
    IF k > Len(lines) \/ st.exc # "" THEN st
    ELSE LET vals == lines[k]
         IN  IF FirstWord(vals) \in {"qreg", "creg"} THEN
                 IF Len(vals) < 2 THEN [st EXCEPT !.exc = "IndexError"]
                 ELSE IF Len(vals[2]) = 1 /\ vals[2][1].idx < 0
                 THEN [st EXCEPT !.exc = "ValueError"]
                 ELSE IF FirstWord(vals) = "qreg"
                 THEN DeclLoop(lines, k + 1,
                               [st EXCEPT !.qname = RegDict(vals[2]),
                                          !.qreg = RegKeys(vals[2])])
                 ELSE DeclLoop(lines, k + 1,
                               [st EXCEPT !.bname = RegDict(vals[2]),
                                          !.creg = RegKeys(vals[2])])
             ELSE IF FirstWord(vals) = "measure" THEN
                 IF Len(vals) < 2 THEN [st EXCEPT !.exc = "IndexError"]
                 ELSE DeclLoop(lines, k + 1,
                               MeasurePairs(vals[2], vals[Len(vals)], 1,
                                            st.qname, st.bname, st))
             ELSE DeclLoop(lines, k + 1, st)

\* the dict {"gate": g, "target": q} of a single-qubit statement
Op1(g, q) == Entry("gate", g, "target", Scalar(q), "none", NoVal, "none", NoVal)

\* the dict {"gate": g, "targets": qtgt}
Op2(g, qtgt) == Entry("gate", g, "targets", List(qtgt), "none", NoVal, "none", NoVal)

\* the dict {"gate": g, "targets": qtgt, "controls": qctl}
OpC(g, qtgt, qctl) ==
    Entry("gate", g, "targets", List(qtgt), "controls", List(qctl), "none", NoVal)

\* the second loop over the lines: one operation per statement whose first
\* word is in a gate table.  acc.bound says whether qtgt and qctl are
\* bound; acc.shared holds the positions in circ of the operations whose
\* "targets" is the very list that qtgt names.
RECURSIVE GateLoop(_, _, _, _)
GateLoop(lines, k, qname, acc) ==
    IF k > Len(lines) \/ acc.exc # "" THEN acc
    ELSE LET vals == lines[k]
             mn   == FirstWord(vals)
         IN  IF Len(vals) < 2 THEN [acc EXCEPT !.exc = "IndexError"]
             ELSE IF mn \in Keys(gates_1q) THEN
                 IF Len(vals[2]) = 1 /\ vals[2][1] \in DOMAIN qname
                 THEN GateLoop(lines, k + 1, qname,
                        [acc EXCEPT !.circ = Append(@, Op1(gates_1q[mn], qname[vals[2][1]]))])
                 ELSE [acc EXCEPT !.exc = "KeyError"]
             ELSE
                 LET qval  == vals[2]
                     n     == Len(qval)
                     rebind == qval[n] \in DOMAIN qname
                     ctlok == \A i \in 1..(n - 1) : qval[i] \in DOMAIN qname
                     a1    == IF rebind /\ ctlok
                              THEN [acc EXCEPT !.bound = TRUE,
                                               !.qtgt = <<qname[qval[n]]>>,
                                               !.qctl = [i \in 1..(n - 1) |-> qname[qval[i]]],
                                               !.shared = {}]
                              ELSE acc
                 IN  IF rebind /\ ~ctlok THEN [acc EXCEPT !.exc = "KeyError"]
                     ELSE IF mn \in Keys(gates_2q_noctl) THEN
                         IF ~a1.bound THEN [acc EXCEPT !.exc = "UnboundLocalError"]
                         ELSE IF qval[1] \notin DOMAIN qname
                         THEN [acc EXCEPT !.exc = "KeyError"]
                         ELSE LET qtgt == Append(a1.qtgt, qname[qval[1]])
                                  circ == [i \in 1..Len(a1.circ) |->
                                             IF i \in a1.shared
                                             THEN [a1.circ[i] EXCEPT !.t = List(qtgt)]
                                             ELSE a1.circ[i]]
                              IN  GateLoop(lines, k + 1, qname,
                                    [a1 EXCEPT !.qtgt = qtgt,
                                               !.circ = Append(circ, Op2(gates_2q_noctl[mn], qtgt)),
                                               !.shared = @ \cup {Len(circ) + 1}])
                     ELSE IF mn \in Keys(gates_2q_ctl) \/ mn \in Keys(gates_mq) THEN
                         IF ~a1.bound THEN [acc EXCEPT !.exc = "UnboundLocalError"]
                         ELSE GateLoop(lines, k + 1, qname,
                                [a1 EXCEPT !.circ = Append(@,
                                        OpC(IF mn \in Keys(gates_2q_ctl)
                                            THEN gates_2q_ctl[mn] ELSE gates_mq[mn],
                                            a1.qtgt, a1.qctl)),
                                     !.shared = @ \cup {Len(a1.circ) + 1}])
                     ELSE GateLoop(lines, k + 1, qname, a1)

\* translate_qasm after the header: the first loop runs over the lines as
\* given, the second over the lines with the custom gates expanded
Translated(lines, expanded) ==
    LET st == DeclLoop(lines, 1,
                 [exc |-> "", qname |-> EmptyDict, bname |-> EmptyDict,
                  qreg |-> <<>>, creg |-> <<>>, measure |-> <<>>])
        acc == IF st.exc = "" /\ expanded.exc = "" /\ Cardinality(DOMAIN st.qname) > 0
               THEN GateLoop(expanded.lines, 1, st.qname,
                       [exc |-> "", circ |-> <<>>, bound |-> FALSE,
                        qtgt |-> <<>>, qctl |-> <<>>, shared |-> {}])
               ELSE [exc |-> "", circ |-> <<>>, bound |-> FALSE,
                     qtgt |-> <<>>, qctl |-> <<>>, shared |-> {}]
    IN  IF st.exc # "" THEN QRaise(st.exc)
        ELSE IF expanded.exc # "" THEN QRaise(expanded.exc)
        ELSE IF acc.exc # "" THEN QRaise(acc.exc)
        ELSE QBody(Cardinality(DOMAIN st.qname), acc.circ,
                   [qreg |-> st.qreg, creg |-> st.creg, measure |-> st.measure])

\* translate_qasm(qc_list) for a list of statement lines without custom
\* gates
translate_qasm(qc_list) ==
    LET kept == KeepLines(qc_list)
    IN  IF Len(kept) < 2 THEN QRaise("IndexError")
        ELSE IF FirstWord(kept[1]) # "OPENQASM" \/ FirstWord(kept[2]) # "include"
        THEN QNone
        ELSE Translated(SubSeq(kept, 3, Len(kept)),
                        [exc |-> "", lines |-> SubSeq(kept, 3, Len(kept))])

(***************************************************************************)
(* translate_qasm on statements held as text, with custom gates.           *)
(*                                                                         *)
(* A text is the sequence of its characters.  The statements are the       *)
(* elements of the list given to translate_qasm; a custom gate definition  *)
(* is one element, "gate name formals { statement; ...; }".  A register    *)
(* index has one digit.                                                    *)
(***************************************************************************)
RECURSIVE Join(_)
Join(text) == IF text = <<>> THEN "" ELSE Head(text) \o Join(Tail(text))

\* str.startswith(prefix)
StartsWith(text, prefix) ==
    Len(text) >= Len(prefix) /\ SubSeq(text, 1, Len(prefix)) = prefix

\* str.replace(old, new) for a non-empty old: the occurrences are taken
\* from the left and do not overlap
RECURSIVE Replace(_, _, _)
Replace(text, old, new) ==
    IF old = <<>> \/ Len(text) < Len(old) THEN text
    ELSE IF StartsWith(text, old)
    THEN new \o Replace(SubSeq(text, Len(old) + 1, Len(text)), old, new)
    ELSE <<Head(text)>> \o Replace(Tail(text), old, new)

\* one operand as the statement loops read it: name[idx], or a plain name
ItemOf(text) ==
    IF /\ Len(text) >= 4 /\ text[Len(text)] = "]" /\ text[Len(text) - 2] = "["
       /\ text[Len(text) - 1] \in DOMAIN DigitValue
    THEN Item(Join(SubSeq(text, 1, Len(text) - 3)), DigitValue[text[Len(text) - 1]])
    ELSE Item(Join(text), -1)

\* line.split(" ") and, for the words after the first, word.split(",")
ParseLine(text) ==
    LET ws == Split(text, " ")
    IN  [k \in 1..Len(ws) |->
            IF k = 1 THEN Word(Join(ws[k]))
            ELSE LET its == Split(ws[k], ",")
                 IN  [i \in 1..Len(its) |-> ItemOf(its[i])]]

\* dict.update({key: val}) on a dict held as the sequence of its items
DictSet(d, key, val) ==
    IF \E k \in 1..Len(d) : d[k].key = key
    THEN [k \in 1..Len(d) |-> IF d[k].key = key THEN [key |-> key, val |-> val] ELSE d[k]]
    ELSE Append(d, [key |-> key, val |-> val])

DictHas(d, key) == \E k \in 1..Len(d) : d[k].key = key

DictGet(d, key) == (CHOOSE k \in 1..Len(d) : d[k].key = key)
DictVal(d, key) == d[DictGet(d, key)].val

TextGate == <<"g", "a", "t", "e">>

TextGateSp == <<"g", "a", "t", "e", " ">>

\* one definition line: its name, its formal parameters and its statements
ParseGate(line) ==
    LET parts   == Split(line, "{")
        vals0   == Split(Strip(parts[1]), " ")
        vals    == IF vals0[1] = TextGate THEN Tail(vals0) ELSE vals0
        ds      == Split(parts[2], ";")
    IN  [name    |-> vals[1],
         qbits   |-> Split(vals[2], ","),
         deflist |-> [k \in 1..(Len(ds) - 1) |-> Strip(ds[k])]]

\* the first loop over gate_list: definitions of several statements go to
\* custom_gates, the others to tmp_gates
RECURSIVE CollectGates(_, _, _)
CollectGates(gate_list, k, st) ==
    IF k > Len(gate_list) THEN st
    ELSE LET g   == ParseGate(gate_list[k])
             val == [qbits |-> g.qbits, deflist |-> g.deflist]
         IN  CollectGates(gate_list, k + 1,
                IF Len(g.deflist) > 1
                THEN [st EXCEPT !.custom_gates = DictSet(@, g.name, val)]
                ELSE [st EXCEPT !.tmp_gates = DictSet(@, g.name, val)])

\* the loop over tmp_gates: a definition whose statement names a gate of
\* custom_gates takes that gate's entry, any other keeps its own
RECURSIVE ResolveGates(_, _, _)
ResolveGates(tmp_gates, k, st) ==
    IF k > Len(tmp_gates) \/ st.exc # "" THEN st
    ELSE LET vals == tmp_gates[k].val
         IN  IF Len(vals.deflist) = 0 THEN [st EXCEPT !.exc = "IndexError"]
             ELSE LET name == Split(vals.deflist[1], " ")[1]
                  IN  ResolveGates(tmp_gates, k + 1,
                         [st EXCEPT !.custom_gates =
                             DictSet(@, tmp_gates[k].key,
                                     IF DictHas(st.custom_gates, name)
                                     THEN DictVal(st.custom_gates, name)
                                     ELSE vals)])

\* qdict = {qb: q for qb, q in zip(qbits, qubits)}
RECURSIVE ZipDict(_, _, _, _)
ZipDict(qbits, qubits, k, d) ==
    IF k > Min(Len(qbits), Len(qubits)) THEN d
    ELSE ZipDict(qbits, qubits, k + 1, DictSet(d, qbits[k], qubits[k]))

\* for qb, q in qdict.items(): op = op.replace(qb, q)
RECURSIVE Substitute(_, _, _)
Substitute(op, qdict, k) ==
    IF k > Len(qdict) THEN op
    ELSE Substitute(Replace(op, qdict[k].key, qdict[k].val), qdict, k + 1)

\* the loop that builds myqc_list
RECURSIVE ExpandLines(_, _, _, _)
ExpandLines(lines, k, custom_gates, out) ==
    IF k > Len(lines) THEN [exc |-> "", lines |-> out]
    ELSE LET line == lines[k]
             vals == Split(line, " ")
         IN  IF StartsWith(line, TextGateSp)
             THEN ExpandLines(lines, k + 1, custom_gates, out)
             ELSE IF ~DictHas(custom_gates, vals[1])
             THEN ExpandLines(lines, k + 1, custom_gates, Append(out, line))
             ELSE IF Len(vals) < 2 THEN [exc |-> "IndexError", lines |-> out]
             ELSE LET g     == DictVal(custom_gates, vals[1])
                      qdict == ZipDict(g.qbits, Split(vals[2], ","), 1, <<>>)
                  IN  ExpandLines(lines, k + 1, custom_gates,
                         out \o [i \in 1..Len(g.deflist) |->
                                    Substitute(g.deflist[i], qdict, 1)])

\* qc_list after the custom gates have been looked for
ExpandText(lines) ==
    LET gate_list == SelectSeq(lines, LAMBDA l : StartsWith(l, TextGateSp))
        st0 == CollectGates(gate_list, 1,
                  [exc |-> "", custom_gates |-> <<>>, tmp_gates |-> <<>>])
        st  == ResolveGates(st0.tmp_gates, 1, st0)
    IN  IF Len(gate_list) = 0 THEN [exc |-> "", lines |-> lines]
        ELSE IF st.exc # "" THEN [exc |-> st.exc, lines |-> <<>>]
        ELSE ExpandLines(lines, 1, st.custom_gates, <<>>)

TextSlashes == <<"/", "/">>

TextOPENQASM == <<"O", "P", "E", "N", "Q", "A", "S", "M">>

TextInclude == <<"i", "n", "c", "l", "u", "d", "e">>

\* the statements that the filter keeps, stripped
KeptTexts(qc_list) ==
    SelectSeq([k \in 1..Len(qc_list) |-> Strip(qc_list[k])],
              LAMBDA l : Len(l) > 0 /\ ~StartsWith(l, TextSlashes))

\* the statements after the two header lines
AfterHeader(kept) == SubSeq(kept, 3, Len(kept))

\* translate_qasm from the header check on: kept are the statements, exp
\* is what the custom gate expansion made of the statements after the
\* header
TranslateKept(kept, exp) ==
    IF Len(kept) < 2 THEN QRaise("IndexError")
    ELSE IF ~StartsWith(kept[1], TextOPENQASM) \/ ~StartsWith(kept[2], TextInclude)
    THEN QNone
    ELSE Translated([k \in 1..Len(kept) - 2 |-> ParseLine(kept[k + 2])],
                    [exc   |-> exp.exc,
                     lines |-> [k \in 1..Len(exp.lines) |-> ParseLine(exp.lines[k])]])

\* translate_qasm(qc_list) for a list of statement texts
translate_qasm_text(qc_list) ==
    TranslateKept(KeptTexts(qc_list), ExpandText(AfterHeader(KeptTexts(qc_list))))

(***************************************************************************)
(* The reconciliation of the raw histogram in retrieve_job.                *)
(*                                                                         *)
(* A raw value is a multiple of 1/ValDen and is held as its numerator, so  *)
(* the arithmetic is exact; a count is held the same way, a probability as *)
(* a fraction <<numerator, denominator>>.  The histogram resdata is the    *)
(* sequence of its (state, value) items in dict order.                     *)
(***************************************************************************)
ValDen == 5

\* int(x) for the fraction n/d, d > 0: truncation towards zero
IntTrunc(n, d) == IF n >= 0 THEN n \div d ELSE -((-n) \div d)

\* bin(k)[2:]
RECURSIVE Bin(_)
Bin(k) == IF k < 2 THEN <<IF k = 0 THEN "0" ELSE "1">>
          ELSE Bin(k \div 2) \o <<IF k % 2 = 0 THEN "0" ELSE "1">>

\* str.zfill(width)
ZFill(str, width) ==
    IF Len(str) >= width THEN str ELSE Rep("0", width - Len(str)) \o str

RECURSIVE SumValues(_)
SumValues(items) == IF items = <<>> THEN 0 ELSE Head(items)[2] + SumValues(Tail(items))

\* flg_probs = sumcnts > 0.8 and sumcnts < 1.2
FlgProbs(sumnum) == 10 * sumnum > 8 * ValDen /\ 10 * sumnum < 12 * ValDen

\* cnts[kbin] for the raw value v
RawCount(v, shots, flg_probs) ==
    IF flg_probs THEN ValDen * IntTrunc(v * shots, ValDen) ELSE v

\* the scan for the largest count: the position (0 when maxk stays '') of
\* the first item whose count exceeds every count before it and 0
RECURSIVE MaxScan(_, _, _, _)
MaxScan(cnts, k, maxk, maxcnt) ==
    IF k > Len(cnts) THEN maxk
    ELSE IF cnts[k][2] > maxcnt THEN MaxScan(cnts, k + 1, k, cnts[k][2])
    ELSE MaxScan(cnts, k + 1, maxk, maxcnt)

ReconOk(cnts, probs) == [kind |-> "ok", exc |-> "", counts |-> cnts, probabilities |-> probs]

ReconRaise(exc) == [kind |-> "raise", exc |-> exc, counts |-> <<>>, probabilities |-> <<>>]

\* data["results"] as built from resdata, shots = float(data["shots"]) and
\* nqbits = data["qubits"], or the exception that ends retrieve_job, for
\* a histogram taken as probabilities (flg_probs) or as counts
ReconcileAs(resdata, shots, nqbits, flg_probs) ==
    LET kbin(k)   == ZFill(Bin(resdata[k][1]), nqbits)
        cnts      == [k \in 1..Len(resdata) |->
                         <<kbin(k), RawCount(resdata[k][2], shots, flg_probs)>>]
        \* probs[kbin] = v if flg_probs else v/shots
        probs     == [k \in 1..Len(resdata) |->
                         <<kbin(k), IF flg_probs THEN <<resdata[k][2], ValDen>>
                                    ELSE <<resdata[k][2], ValDen * shots>>>>]
        sumcnts   == SumValues(cnts)
        sumpn     == SumValues(resdata)
        sumpd     == IF flg_probs THEN ValDen ELSE ValDen * shots
        \* if sumprobs != 1.0: probs[k] = v/sumprobs
        normprobs == IF sumpn # sumpd
                     THEN [k \in 1..Len(probs) |-> <<probs[k][1], <<resdata[k][2], sumpn>>>>]
                     ELSE probs
        maxk      == MaxScan(cnts, 1, 0, 0)
    IN  IF sumpn # sumpd /\ sumpn = 0 /\ Len(resdata) > 0
        THEN ReconRaise("ZeroDivisionError")
        ELSE IF sumcnts # ValDen * shots
        THEN IF maxk = 0 THEN ReconRaise("KeyError")
             ELSE ReconOk([cnts EXCEPT ![maxk][2] =
                              @ + ValDen * IntTrunc(ValDen * shots - sumcnts, ValDen)],
                          normprobs)
        ELSE ReconOk(cnts, normprobs)

Reconcile(resdata, shots, nqbits) ==
    ReconcileAs(resdata, shots, nqbits, FlgProbs(SumValues(resdata)))

(***************************************************************************)
(* Identifier strings: a well-formed identifier, one whose hyphens are     *)
(* misplaced, and everything within MaxEdits single-character edits.       *)
(***************************************************************************)
IdAlphabet == {"a", "7", "A", "g", "-", " "}

GoodId == Rep("a", 8) \o <<"-">> \o Rep("7", 4) \o <<"-">> \o Rep("f", 4)
          \o <<"-">> \o Rep("0", 4) \o <<"-">> \o Rep("c", 12)

ShiftedId == Rep("a", 7) \o <<"-">> \o Rep("7", 5) \o <<"-">> \o Rep("f", 4)
             \o <<"-">> \o Rep("0", 4) \o <<"-">> \o Rep("c", 12)

IdInit ==
    /\ idphase = "input"
    /\ idstr \in {GoodId, ShiftedId}
    /\ idedits = 0
    /\ idres = IdError

IdReplace ==
    /\ idphase = "input" /\ idedits < MaxEdits
    /\ \E i \in 1..Len(idstr), c \in IdAlphabet :
          idstr' = [idstr EXCEPT ![i] = c]
    /\ idedits' = idedits + 1
    /\ UNCHANGED <<idphase, idres>>
    /\ UNCHANGED <<vvars, qvars, rvars, jvars, svars>>

IdInsert ==
    /\ idphase = "input" /\ idedits < MaxEdits
    /\ \E i \in 0..Len(idstr), c \in IdAlphabet :
          idstr' = SubSeq(idstr, 1, i) \o <<c>> \o SubSeq(idstr, i + 1, Len(idstr))
    /\ idedits' = idedits + 1
    /\ UNCHANGED <<idphase, idres>>
    /\ UNCHANGED <<vvars, qvars, rvars, jvars, svars>>

IdDelete ==
    /\ idphase = "input" /\ idedits < MaxEdits
    /\ \E i \in 1..Len(idstr) :
          idstr' = SubSeq(idstr, 1, i - 1) \o SubSeq(idstr, i + 1, Len(idstr))
    /\ idedits' = idedits + 1
    /\ UNCHANGED <<idphase, idres>>
    /\ UNCHANGED <<vvars, qvars, rvars, jvars, svars>>

\* the call validate_jobid_hash(idstr)
IdValidate ==
    /\ idphase = "input"
    /\ idres' = validate_jobid_hash(StrArg(idstr))
    /\ idphase' = "done"
    /\ UNCHANGED <<idstr, idedits>>
    /\ UNCHANGED <<vvars, qvars, rvars, jvars, svars>>

IdNext == IdReplace \/ IdInsert \/ IdDelete \/ IdValidate

IdIdle == idphase = "off" /\ idstr = <<>> /\ idedits = 0 /\ idres = IdError

(***************************************************************************)
(* Callers of validate_circuit.  The caller builds a list of at most       *)
(* MaxEntries entries, validates it, and validates the returned circuit again.   *)
(* One entry of the list is drawn from FreeEntries (every shape of *)
(* every gate of FreeGates), the others from ContextEntries.  The code     *)
(* only copies qubit numbers, so every position holds a number of its own. *)
(***************************************************************************)
TargetQubits(n) == [i \in 1..n |-> i - 1]

ControlQubits(n) == [i \in 1..n |-> 9 + i]

FreeGates == {"h", "not", "x", "cnot", "swap", "rxx", "ccx", "t", "rz",
              "sswap", "cswap", "siswap", "foo"}

TargetShapes ==
    {<<"none", NoVal>>, <<"target", Scalar(0)>>, <<"targets", Scalar(0)>>}
    \cup {<<k, List(TargetQubits(n))>> : k \in {"target", "targets"}, n \in 0..MaxTargets}

ControlShapes ==
    {<<"none", NoVal>>, <<"control", Scalar(10)>>, <<"controls", Scalar(10)>>}
    \cup {<<k, List(ControlQubits(n))>> : k \in {"control", "controls"}, n \in 0..MaxControls}

ParamShapes ==
    {<<"none", NoVal>>, <<"parameter", Scalar(HalfPi)>>, <<"rotation", Scalar(HalfPi)>>}
    \cup {<<k, v>> : k \in {"parameters", "rotations"},
                     v \in {Scalar(HalfPi), List(<<HalfPi>>)}}

FreeEntries ==
    {Entry("gate", g, ts[1], ts[2], cs[1], cs[2], ps[1], ps[2]) :
        g \in FreeGates, ts \in TargetShapes, cs \in ControlShapes, ps \in ParamShapes}

NoGateEntry == Entry("none", "", "none", NoVal, "none", NoVal, "none", NoVal)

NotDictEntry == Entry("notdict", "", "none", NoVal, "none", NoVal, "none", NoVal)

ContextEntries ==
    { Entry("gate", "h", "target", Scalar(5), "none", NoVal, "none", NoVal),
      Entry("gate", "sswap", "targets", List(<<5, 6>>), "none", NoVal, "none", NoVal),
      Entry("gate", "cnot", "target", Scalar(6), "control", Scalar(5), "none", NoVal),
      Entry("gate", "foo", "target", Scalar(5), "none", NoVal, "none", NoVal),
      NoGateEntry, NotDictEntry }

VInit ==
    /\ vphase = "build"
    /\ callerCircuit = <<>>
    /\ freeUsed = FALSE
    /\ vin = <<>>
    /\ vres = VOk(<<>>, <<>>)
    /\ vres2 = VOk(<<>>, <<>>)

AddContextEntry ==
    /\ vphase = "build" /\ Len(callerCircuit) < MaxEntries
    /\ \E e \in ContextEntries : callerCircuit' = Append(callerCircuit, e)
    /\ UNCHANGED <<vphase, freeUsed, vin, vres, vres2>>
    /\ UNCHANGED <<idvars, qvars, rvars, jvars, svars>>

AddFreeEntry ==
    /\ vphase = "build" /\ Len(callerCircuit) < MaxEntries /\ ~freeUsed
    /\ \E e \in FreeEntries : callerCircuit' = Append(callerCircuit, e)
    /\ freeUsed' = TRUE
    /\ UNCHANGED <<vphase, vin, vres, vres2>>
    /\ UNCHANGED <<idvars, qvars, rvars, jvars, svars>>

\* the call validate_circuit(callerCircuit)
CallValidate ==
    /\ vphase = "build"
    /\ vin' = callerCircuit
    /\ vres' = validate_circuit(callerCircuit)
    /\ callerCircuit' = validate_circuit_input(callerCircuit)
    /\ vphase' = "validated"
    /\ UNCHANGED <<freeUsed, vres2>>
    /\ UNCHANGED <<idvars, qvars, rvars, jvars, svars>>

\* the call validate_circuit(vres['circuit']) on a successful result
CallRevalidate ==
    /\ vphase = "validated" /\ ~vres.error
    /\ vres2' = validate_circuit(vres.circuit)
    /\ vres' = [vres EXCEPT !.circuit = validate_circuit_input(vres.circuit)]
    /\ vphase' = "revalidated"
    /\ UNCHANGED <<callerCircuit, freeUsed, vin>>
    /\ UNCHANGED <<idvars, qvars, rvars, jvars, svars>>

VNext == AddContextEntry \/ AddFreeEntry \/ CallValidate \/ CallRevalidate

VIdle ==
    /\ vphase = "off" /\ callerCircuit = <<>> /\ freeUsed = FALSE /\ vin = <<>>
    /\ vres = VOk(<<>>, <<>>) /\ vres2 = VOk(<<>>, <<>>)

(***************************************************************************)
(* Callers of translate_qasm: a program is one of the opening sequences    *)
(* followed by at most MaxBody lines of BodyLines; it is translated and    *)
(* the translated circuit is validated.                                    *)
(***************************************************************************)
Q(i) == Item("q", i)

LineOPENQASM == <<Word("OPENQASM"), Word("2.0")>>

LineInclude == <<Word("include"), Word("\"qelib1.inc\"")>>

LineQreg == <<Word("qreg"), <<Q(3)>>>>

LineCreg == <<Word("creg"), <<Item("c", 3)>>>>

Openings ==
    { <<LineOPENQASM, LineInclude, LineQreg, LineCreg>>,
      <<LineOPENQASM, LineInclude, LineQreg>>,
      <<LineOPENQASM, LineInclude>>,
      <<LineInclude, LineOPENQASM, LineQreg>>,
      <<>> }

BodyLines ==
    { <<Word("h"), <<Q(0)>>>>,
      <<Word("not"), <<Q(1)>>>>,
      <<Word("cx"), <<Q(0), Q(1)>>>>,
      <<Word("swap"), <<Q(0), Q(1)>>>>,
      <<Word("ccx"), <<Q(0), Q(1), Q(2)>>>>,
      <<Word("mct"), <<Q(0), Q(1)>>>>,
      <<Word("rx(0.5)"), <<Q(0)>>>>,
      <<Word("barrier"), <<Q(0), Q(1)>>>>,
      <<Word("measure"), <<Q(0)>>, Word("->"), <<Item("c", 0)>>>>,
      <<Word("measure"), <<Q(5)>>, Word("->"), <<Item("c", 0)>>>>,
      <<Word("swap"), <<Q(0), Q(5)>>>>,
      <<Word("h"), <<Q(5)>>>>,
      <<Word("//"), Word("comment")>>,
      <<>> }

QInit ==
    /\ qphase = "build"
    /\ qprog \in Openings
    /\ qadded = 0
    /\ qbody = QNone
    /\ qres = VOk(<<>>, <<>>)

AddLine ==
    /\ qphase = "build" /\ qadded < MaxBody
    /\ \E l \in BodyLines : qprog' = Append(qprog, l)
    /\ qadded' = qadded + 1
    /\ UNCHANGED <<qphase, qbody, qres>>
    /\ UNCHANGED <<idvars, vvars, rvars, jvars, svars>>

\* the call translate_qasm(qprog)
CallTranslate ==
    /\ qphase = "build"
    /\ qbody' = translate_qasm(qprog)
    /\ qphase' = "translated"
    /\ UNCHANGED <<qprog, qadded, qres>>
    /\ UNCHANGED <<idvars, vvars, rvars, jvars, svars>>

\* the call validate_circuit(body["circuit"]) on the translated body
CallValidateTranslated ==
    /\ qphase = "translated" /\ qbody.kind = "body"
    /\ qres' = validate_circuit(qbody.circuit)
    /\ qphase' = "validated"
    /\ UNCHANGED <<qprog, qadded, qbody>>
    /\ UNCHANGED <<idvars, vvars, rvars, jvars, svars>>

QNext == AddLine \/ CallTranslate \/ CallValidateTranslated

QIdle ==
    /\ qphase = "off" /\ qprog = <<>> /\ qadded = 0 /\ qbody = QNone
    /\ qres = VOk(<<>>, <<>>)

(***************************************************************************)
(* Callers of translate_qasm with programs held as text: a program is a    *)
(* header with one or two qreg declarations, in indexed or comma-list      *)
(* form, followed by at most MaxStatements statements: custom gate         *)
(* definitions and invocations, gates, a creg declaration and measure      *)
(* statements.                                                             *)
(***************************************************************************)
MaxStatements == 3

\* OPENQASM 2.0
LineTextOPENQASM ==
    <<"O", "P", "E", "N", "Q", "A", "S", "M", " ", "2", ".", "0">>

\* include "qelib1.inc"
LineTextInclude ==
    <<"i", "n", "c", "l", "u", "d", "e", " ", "\"", "q", "e", "l", "i",
      "b", "1", ".", "i", "n", "c", "\"">>

\* qreg q[2]
TextQreg2 ==
    <<"q", "r", "e", "g", " ", "q", "[", "2", "]">>

\* qreg r[1]
TextQregR ==
    <<"q", "r", "e", "g", " ", "r", "[", "1", "]">>

\* qreg a,b
TextQregAB ==
    <<"q", "r", "e", "g", " ", "a", ",", "b">>

\* qreg a,b,a
TextQregABA ==
    <<"q", "r", "e", "g", " ", "a", ",", "b", ",", "a">>

\* creg c[2]
TextCreg ==
    <<"c", "r", "e", "g", " ", "c", "[", "2", "]">>

\* gate f a,b { cx a,b; h b; }
TextGateF ==
    <<"g", "a", "t", "e", " ", "f", " ", "a", ",", "b", " ", "{", " ", "c",
      "x", " ", "a", ",", "b", ";", " ", "h", " ", "b", ";", " ", "}">>

\* gate g a,b { swap a,b; h a; }
TextGateG ==
    <<"g", "a", "t", "e", " ", "g", " ", "a", ",", "b", " ", "{", " ", "s",
      "w", "a", "p", " ", "a", ",", "b", ";", " ", "h", " ", "a", ";",
      " ", "}">>

\* gate k a,b { f b,a; }
TextGateK ==
    <<"g", "a", "t", "e", " ", "k", " ", "a", ",", "b", " ", "{", " ", "f",
      " ", "b", ",", "a", ";", " ", "}">>

\* f q[0],q[1]
TextCallFq ==
    <<"f", " ", "q", "[", "0", "]", ",", "q", "[", "1", "]">>

\* f b,a
TextCallFba ==
    <<"f", " ", "b", ",", "a">>

\* g q[0],q[1]
TextCallGq ==
    <<"g", " ", "q", "[", "0", "]", ",", "q", "[", "1", "]">>

\* k q[0],q[1]
TextCallKq ==
    <<"k", " ", "q", "[", "0", "]", ",", "q", "[", "1", "]">>

\* h q[0]
TextHq ==
    <<"h", " ", "q", "[", "0", "]">>

\* h a
TextHa ==
    <<"h", " ", "a">>

\* cx q[0],q[1]
TextCXq ==
    <<"c", "x", " ", "q", "[", "0", "]", ",", "q", "[", "1", "]">>

\* measure q[0] -> c[1]
TextMeasureQ ==
    <<"m", "e", "a", "s", "u", "r", "e", " ", "q", "[", "0", "]", " ", "-",
      ">", " ", "c", "[", "1", "]">>

\* measure 7 -> c[1]
TextMeasure7 ==
    <<"m", "e", "a", "s", "u", "r", "e", " ", "7", " ", "-", ">", " ", "c",
      "[", "1", "]">>

\* measure q[5] -> c[0]
TextMeasureQ5 ==
    <<"m", "e", "a", "s", "u", "r", "e", " ", "q", "[", "5", "]", " ", "-",
      ">", " ", "c", "[", "0", "]">>

\* measure x -> c[0]
TextMeasureX ==
    <<"m", "e", "a", "s", "u", "r", "e", " ", "x", " ", "-", ">", " ", "c",
      "[", "0", "]">>

TextOpenings ==
    { <<LineTextOPENQASM, LineTextInclude, TextQreg2>>,
      <<LineTextOPENQASM, LineTextInclude, TextQregAB>>,
      <<LineTextOPENQASM, LineTextInclude, TextQregABA>>,
      <<LineTextOPENQASM, LineTextInclude, TextQreg2, TextQregR>> }

Statements ==
    { TextCreg, TextGateF, TextGateG, TextGateK, TextCallFq, TextCallFba,
      TextCallGq, TextCallKq, TextHq, TextHa, TextCXq, TextMeasureQ,
      TextMeasure7, TextMeasureQ5, TextMeasureX }

TInit ==
    /\ qphase = "text"
    /\ qprog \in TextOpenings
    /\ qadded = 0
    /\ qbody = QNone
    /\ qres = VOk(<<>>, <<>>)

AddStatement ==
    /\ qphase = "text" /\ qadded < MaxStatements
    /\ \E l \in Statements : qprog' = Append(qprog, l)
    /\ qadded' = qadded + 1
    /\ UNCHANGED <<qphase, qbody, qres>>
    /\ UNCHANGED <<idvars, vvars, rvars, jvars, svars>>

\* the call translate_qasm(qprog)
CallTranslateText ==
    /\ qphase = "text"
    /\ qbody' = translate_qasm_text(qprog)
    /\ qphase' = "translated"
    /\ UNCHANGED <<qprog, qadded, qres>>
    /\ UNCHANGED <<idvars, vvars, rvars, jvars, svars>>

TNext == AddStatement \/ CallTranslateText

(***************************************************************************)
(* The reconciliation on its own: a completed job with rshots shots and    *)
(* rqubits qubits, whose raw histogram holds at most MaxStates states with *)
(* positive values, probabilities (multiples of 1/ValDen up to 1) or       *)
(* counts (1..MaxCount).                                                   *)
(***************************************************************************)
HistValues == (1..ValDen) \cup {ValDen * c : c \in 1..MaxCount}

\* what a service can return for a completed job: at least one state, and
\* either whole counts or probabilities that sum to between 0.8 and 1.2
PlausibleHistogram(items) ==
    /\ Len(items) > 0
    /\ \/ \A k \in 1..Len(items) : items[k][2] % ValDen = 0
       \/ /\ 10 * SumValues(items) >= 8 * ValDen
          /\ 10 * SumValues(items) <= 12 * ValDen

RInit ==
    /\ rphase = "build"
    /\ rdata = <<>>
    /\ rshots \in 1..MaxShots
    /\ rqubits \in 1..MaxQubits
    /\ rres = ReconOk(<<>>, <<>>)

AddState ==
    /\ rphase = "build" /\ Len(rdata) < MaxStates
    /\ \E k \in 0..(2 ^ rqubits - 1), v \in HistValues :
          /\ \A i \in 1..Len(rdata) : rdata[i][1] # k
          /\ rdata' = Append(rdata, <<k, v>>)
    /\ UNCHANGED <<rphase, rshots, rqubits, rres>>
    /\ UNCHANGED <<idvars, vvars, qvars, jvars, svars>>

\* the results block of retrieve_job for the histogram rdata
CallReconcile ==
    /\ rphase = "build" /\ PlausibleHistogram(rdata)
    /\ rres' = Reconcile(rdata, rshots, rqubits)
    /\ rphase' = "done"
    /\ UNCHANGED <<rdata, rshots, rqubits>>
    /\ UNCHANGED <<idvars, vvars, qvars, jvars, svars>>

RNext == AddState \/ CallReconcile

RIdle ==
    /\ rphase = "off" /\ rdata = <<>> /\ rshots = 1 /\ rqubits = 1
    /\ rres = ReconOk(<<>>, <<>>)

(***************************************************************************)
(* Jobs: the remote service and the calls retrieve_job, cancel_job,        *)
(* retrieve_multiple_jobs and cancel_multiple_jobs.  Every request is a    *)
(* step of its own (the result fetch of a completed job belongs to the     *)
(* poll iteration that finds it completed), and the service may move a job *)
(* between any two steps.                                                  *)
(***************************************************************************)
Job1 == GoodId

Job2 == Rep("b", 8) \o <<"-">> \o Rep("1", 4) \o <<"-">> \o Rep("2", 4)
        \o <<"-">> \o Rep("3", 4) \o <<"-">> \o Rep("d", 12)

Jobs == {Job1, Job2}

NotSet == <<"n", "o", "t", " ", "s", "e", "t">>

\* the identifier texts a user hands in: a job identifier, a padded job
\* identifier and a malformed one
IdPool == {Job1, <<" ">> \o Job2, ShiftedId}

JobShots == 1

JobQubits == 1

\* the raw histograms the service returns for a completed job
JobHistograms == { <<<<0, ValDen>>>>, <<<<0, 2>>, <<1, 3>>>> }

NoResults == ReconOk(<<>>, <<>>)

\* the job record the service returns: response.json()
JobRec(id, status) ==
    [haskey |-> TRUE, id |-> id, status |-> status, shots |-> JobShots,
     qubits |-> JobQubits, hasresults |-> FALSE, results |-> NoResults,
     note |-> FALSE]

\* {'id': 'not set'}
Placeholder ==
    [haskey |-> TRUE, id |-> NotSet, status |-> "", shots |-> 0, qubits |-> 0,
     hasresults |-> FALSE, results |-> NoResults, note |-> FALSE]

NoArg == [type |-> "None", haskey |-> FALSE, id |-> <<>>, ids |-> <<>>]

\* a list argument: validate_jobid_hash says it is not a string
ListArg(ids) == [type |-> "list", haskey |-> FALSE, id |-> <<>>, ids |-> ids]

RetNone == [kind |-> "none", data |-> Placeholder, out |-> <<>>, note |-> FALSE,
     payload |-> "none"]

RetError(note) == [kind |-> "error", data |-> Placeholder, out |-> <<>>, note |-> note,
     payload |-> "none"]

RetData(d) == [kind |-> "data", data |-> d, out |-> <<>>, note |-> FALSE,
     payload |-> "none"]

RetRaise(exc) == [kind |-> exc, data |-> Placeholder, out |-> <<>>, note |-> FALSE,
     payload |-> "none"]

\* the error record of submit_job that holds the payload under "data"
RetErrorData == [RetError(FALSE) EXCEPT !.payload = "data"]

\* the error record of submit_job whose message quotes what was handed in
RetErrorQuote == [RetError(FALSE) EXCEPT !.payload = "message"]

\* the record of a submitted job with the "error" entry of a failed
\* retrieve_job added to it
RetMerged(d) == [RetData(d) EXCEPT !.kind = "merged"]

\* the dict a ..._multiple_jobs call returns
RetBatch(out) == [kind |-> "batch", data |-> Placeholder, out |-> out, note |-> FALSE,
     payload |-> "none"]

NoBatch == [mode |-> "none", todo |-> <<>>, out |-> <<>>]

NoInput == [kind |-> "none", items |-> <<>>]

NoCall == [op |-> "", wait |-> 0, arg |-> NoArg, input |-> NoInput]

\* a request that was sent, with ok: whether its response was response.ok
Request(verb, path, ids, ok) ==
    [verb |-> verb, path |-> path, ids |-> ids, ok |-> ok, body |-> <<>>]

\* validate_jobid_hash tabulated over the texts of this specification
CheckedTexts ==
    {<<t, validate_jobid_hash(StrArg(t)), validate_jobid_hash(DictArg(t))>> :
        t \in IdPool \cup Jobs \cup {NotSet}}

Checked(jobid) ==
    IF jobid.type \in {"str", "dict"} /\ (jobid.type = "dict" => jobid.haskey)
    THEN LET row == CHOOSE r \in CheckedTexts : r[1] = jobid.id
         IN  IF jobid.type = "str" THEN row[2] ELSE row[3]
    ELSE validate_jobid_hash(jobid)

\* jobdict.update({name: id}) on the list of (name, id) pairs
DictUpdate(d, name, id) ==
    IF \E k \in 1..Len(d) : d[k][1] = name
    THEN [k \in 1..Len(d) |-> IF d[k][1] = name THEN <<name, id>> ELSE d[k]]
    ELSE Append(d, <<name, id>>)

\* the loop that keeps the entries whose identifier is valid; items is a
\* sequence of (name, text) pairs
RECURSIVE ValidItems(_, _, _)
ValidItems(items, k, jobdict) ==
    IF k > Len(items) THEN jobdict
    ELSE LET outdict == Checked(StrArg(items[k][2]))
         IN  ValidItems(items, k + 1,
                        IF outdict.error THEN jobdict
                        ELSE DictUpdate(jobdict, items[k][1], outdict.id))

\* get_jobids_from_input for a list of identifiers (names circuit_<j>), a
\* dict {name: identifier} without the keys "ids" and "id", or one string
\* that names no file: the jobdict, or <<>> for the {"error": ...} result
get_jobids_from_input(list_dict_file) ==
    IF list_dict_file.kind = "dict"
    THEN ValidItems(list_dict_file.items, 1, <<>>)
    ELSE ValidItems([j \in 1..Len(list_dict_file.items) |->
                        <<"circuit_" \o ToString(j - 1), list_dict_file.items[j][2]>>],
                    1, <<>>)

HasErrorKey(jobdict) == \E k \in 1..Len(jobdict) : jobdict[k][1] = "error"

JInit ==
    /\ svc = [j \in Jobs |-> "submitted"]
    /\ last_jobid_dict = Placeholder
    /\ pc = "idle"
    /\ call = NoCall
    /\ curid = <<>>
    /\ wait_minutes = 0
    /\ flg_waitprint = FALSE
    /\ netlog = {}
    /\ sleeps = 0
    /\ nfetch = 0
    /\ batch = NoBatch
    /\ ret = RetNone

\* the service moves a job along submitted -> ready -> running -> completed,
\* or fails it
ServiceStep ==
    /\ pc # "done"
    /\ \E j \in Jobs :
          \/ svc[j] = "submitted" /\ svc' = [svc EXCEPT ![j] = "ready"]
          \/ svc[j] = "ready" /\ svc' = [svc EXCEPT ![j] = "running"]
          \/ svc[j] = "running" /\ svc' = [svc EXCEPT ![j] = "completed"]
          \/ svc[j] \in {"submitted", "ready", "running"}
             /\ svc' = [svc EXCEPT ![j] = "failed"]
    /\ UNCHANGED <<last_jobid_dict, pc, call, curid, wait_minutes, flg_waitprint,
                   netlog, sleeps, nfetch, batch, ret>>
    /\ UNCHANGED <<idvars, vvars, qvars, rvars, svars>>

\* the call returns rv to the user
ToUser(rv) ==
    /\ pc' = "done" /\ ret' = rv /\ batch' = NoBatch
    /\ curid' = <<>> /\ wait_minutes' = 0 /\ flg_waitprint' = FALSE

\* a retrieve_job that goes into its loop whatever the identifier check says
EnterRetrieveUnchecked(jobid, b) ==
    LET arg == IF jobid.type = "None" THEN DictArg(last_jobid_dict.id) ELSE jobid
        v   == Checked(arg)
    IN  /\ pc' = "poll" /\ curid' = v.id /\ batch' = b
        /\ wait_minutes' = 4 * call'.wait /\ flg_waitprint' = TRUE
        /\ sleeps' = 0 /\ nfetch' = 0
        /\ ret' = RetNone

\* retrieve_job up to its loop: the identifier check
EnterRetrieve(jobid, b) ==
    LET arg == IF jobid.type = "None" THEN DictArg(last_jobid_dict.id) ELSE jobid
        v   == Checked(arg)
    IN  /\ v.error = FALSE
        /\ pc' = "poll" /\ curid' = v.id /\ batch' = b
        /\ wait_minutes' = 4 * call'.wait /\ flg_waitprint' = TRUE
        /\ sleeps' = 0 /\ nfetch' = 0
        /\ ret' = RetNone

\* cancel_job up to its first request: the identifier check
CancelCheck(jobid) ==
    LET arg == IF jobid.type = "None" THEN DictArg(last_jobid_dict.id) ELSE jobid
        v   == Checked(arg)
    IN  IF v.error /\ jobid.type = "list" /\ Len(jobid.ids) = 1
        THEN Checked(StrArg(jobid.ids[1]))
        ELSE v

EnterCancel(jobid, b, sl, nf) ==
    /\ CancelCheck(jobid).error = FALSE
    /\ sleeps' = sl /\ nfetch' = nf
    /\ pc' = "cancel_get" /\ curid' = CancelCheck(jobid).id /\ batch' = b
    /\ wait_minutes' = 0 /\ flg_waitprint' = FALSE
    /\ ret' = RetNone

\* retrieve_job or cancel_job returns rv: to the user, to the submit_job
\* that made the call, or to the loop of the ..._multiple_jobs call that
\* made the call
Return(rv, sl, nf) ==
    IF batch.mode = "none" \/ rv.kind \notin {"data", "error"}
    THEN ToUser(rv) /\ sleeps' = sl /\ nfetch' = nf
    ELSE IF batch.mode = "submit"
    THEN /\ pc' = "submit_end" /\ ret' = rv /\ batch' = batch
         /\ curid' = <<>> /\ wait_minutes' = 0 /\ flg_waitprint' = FALSE
         /\ sleeps' = sl /\ nfetch' = nf
    ELSE IF batch.mode = "retrieve"
    THEN LET out  == Append(batch.out, <<batch.todo[1][1], rv>>)
             rest == Tail(batch.todo)
         IN  IF rest = <<>>
             THEN ToUser(RetBatch(out)) /\ sleeps' = sl /\ nfetch' = nf
             ELSE EnterRetrieve(StrArg(rest[1][2]),
                                [batch EXCEPT !.todo = rest, !.out = out])
    ELSE LET out  == IF rv.kind = "data" /\ rv.data.status = "canceled"
                     THEN Append(batch.out, <<rv.data.id, rv>>)
                     ELSE batch.out
             rest == Tail(batch.todo)
         IN  IF rest = <<>>
             THEN ToUser(RetBatch(out)) /\ sleeps' = sl /\ nfetch' = nf
             ELSE EnterCancel(StrArg(rest[1][2]),
                              [batch EXCEPT !.todo = rest, !.out = out], sl, nf)

UserArgs == {NoArg} \cup {StrArg(t) : t \in IdPool}

\* the user calls retrieve_job(jobid, wait_minutes = w)
RetrieveCall ==
    /\ pc = "idle"
    /\ \E jobid \in UserArgs, w \in {0, MaxWait} :
          /\ call' = [op |-> "retrieve_job", wait |-> w, arg |-> jobid, input |-> NoInput]
          /\ netlog' = {}
          /\ \/ EnterRetrieve(jobid, NoBatch)
             \/ /\ Checked(IF jobid.type = "None"
                                       THEN DictArg(last_jobid_dict.id) ELSE jobid).error
                /\ ToUser(RetError(FALSE))
                /\ sleeps' = 0 /\ nfetch' = 0
    /\ UNCHANGED <<svc, last_jobid_dict>>
    /\ UNCHANGED <<idvars, vvars, qvars, rvars, svars>>

\* a record that is handed on without its results
WithResultsLeftOut(data, resdata) == data

\* data["results"] filled in from the raw histogram resdata
WithResults(data, resdata) ==
    [data EXCEPT !.hasresults = TRUE,
                 !.results = Reconcile(resdata, data.shots, data.qubits)]

\* a budget that a failed or canceled job leaves as it is
BudgetKept(ok, status, wm) == wm

\* the poll budget after the status request: a failed or canceled job
\* uses it up
BudgetAfter(ok, status, wm) ==
    IF ok /\ status \in {"failed", "canceled"} THEN 0 ELSE wm

\* whether the service holds a job of this identifier: only then does a
\* status request answer ok
Known(jobid) == jobid \in Jobs /\ svc[jobid] # "none"

\* one iteration of the while loop of retrieve_job: the status request
\* answers ok or not, and for a completed job the result request answers
\* rok or not, with the histogram resdata
PollStep ==
    /\ pc = "poll" /\ wait_minutes >= 0
    /\ \E ok, rok \in BOOLEAN, resdata \in JobHistograms :
          LET data     == JobRec(curid, svc[curid])
              done     == ok /\ data.status = "completed"
              wm       == BudgetAfter(ok, data.status, wait_minutes)
              full     == WithResults(data, resdata)
              status   == Request("GET", "jobs", <<curid>>, ok)
              results  == Request("GET", "results", <<curid>>, rok)
          IN  /\ ok => Known(curid)
              /\ netlog' = netlog \cup (IF done THEN {status, results} ELSE {status})
              /\ UNCHANGED call
              /\ IF done /\ rok
                 THEN IF full.results.kind = "raise"
                      THEN /\ last_jobid_dict' = data
                           /\ Return(RetRaise(full.results.exc), sleeps, nfetch + 1)
                      ELSE /\ last_jobid_dict' = full
                           /\ Return(RetData(full), sleeps, nfetch + 1)
                 ELSE IF ok /\ ~done /\ wm <= 0
                 THEN /\ last_jobid_dict' = data
                      /\ Return(RetData(data), sleeps, nfetch + 1)
                 ELSE /\ last_jobid_dict' = IF ok THEN data ELSE last_jobid_dict
                      /\ IF wm - 1 >= 0
                         THEN /\ sleeps' = sleeps + 1
                              /\ nfetch' = nfetch + 1
                              /\ wait_minutes' = wm - 1
                              /\ flg_waitprint' = FALSE
                              /\ UNCHANGED <<pc, curid, batch, ret>>
                         ELSE Return(RetError(FALSE), sleeps + 1, nfetch + 1)
    /\ UNCHANGED svc
    /\ UNCHANGED <<idvars, vvars, qvars, rvars, svars>>

CancelArgs == UserArgs \cup {ListArg(<<t>>) : t \in {Job2, ShiftedId}}
              \cup {ListArg(<<Job1, Job2>>)}

\* the user calls cancel_job(jobid)
CancelCall ==
    /\ pc = "idle"
    /\ \E jobid \in CancelArgs :
          /\ call' = [op |-> "cancel_job", wait |-> 0, arg |-> jobid, input |-> NoInput]
          /\ netlog' = {}
          /\ \/ EnterCancel(jobid, NoBatch, 0, 0)
             \/ /\ CancelCheck(jobid).error
                /\ ToUser(RetError(jobid.type = "list" /\ Len(jobid.ids) # 1))
                /\ sleeps' = 0 /\ nfetch' = 0
    /\ UNCHANGED <<svc, last_jobid_dict>>
    /\ UNCHANGED <<idvars, vvars, qvars, rvars, svars>>

\* a test that lets a running job through to the cancel request
DeclinedWhenOver(status) == status \in {"failed", "completed", "canceled"}

\* the statuses for which cancel_job returns the record with a NOTE
Declined(status) == status \in {"failed", "running", "completed", "canceled"}

\* cancel_job: the status request and what it decides
CancelGet ==
    /\ pc = "cancel_get"
    /\ \E ok \in BOOLEAN :
          LET data == JobRec(curid, svc[curid])
          IN  /\ ok => Known(curid)
              /\ netlog' = netlog \cup {Request("GET", "jobs", <<curid>>, ok)}
              /\ IF ~ok
                 THEN Return(RetError(FALSE), sleeps, nfetch)
                 ELSE IF Declined(data.status)
                 THEN Return(RetData([data EXCEPT !.note = TRUE]), sleeps, nfetch)
                 ELSE /\ pc' = "cancel_put"
                      /\ UNCHANGED <<curid, wait_minutes, flg_waitprint, sleeps,
                                     nfetch, batch, ret>>
    /\ UNCHANGED <<svc, last_jobid_dict, call>>
    /\ UNCHANGED <<idvars, vvars, qvars, rvars, svars>>

\* whether the service takes a cancel request for job j
Cancellable(j) == j \in Jobs /\ svc[j] \in {"submitted", "ready"}

\* cancel_job: the cancel request; the service answers ok only for a job it
\* can still cancel
CancelPut ==
    /\ pc = "cancel_put"
    /\ \E ok \in BOOLEAN :
          /\ ok => Cancellable(curid)
          /\ netlog' = netlog \cup {Request("PUT", "cancel", <<curid>>, ok)}
          /\ svc' = IF ok THEN [svc EXCEPT ![curid] = "canceled"] ELSE svc
          /\ IF ok THEN Return(RetData(JobRec(curid, "canceled")), sleeps, nfetch)
             ELSE Return(RetError(FALSE), sleeps, nfetch)
    /\ UNCHANGED <<last_jobid_dict, call>>
    /\ UNCHANGED <<idvars, vvars, qvars, rvars, svars>>

Unnamed(ids) == [kind |-> "list", items |-> [k \in 1..Len(ids) |-> <<"", ids[k]>>]]

Named(items) == [kind |-> "dict", items |-> items]

\* the inputs of the ..._multiple_jobs calls: a list of up to MaxBatch
\* different identifier texts, or a dict of names to identifiers
BatchInputs ==
    {Unnamed(ids) : ids \in {f \in UNION {[1..n -> IdPool] : n \in 1..MaxBatch} :
                                \A a, b \in 1..Len(f) : f[a] = f[b] => a = b}}
    \cup {Named(<<<<"a", t>>>>) : t \in {Job1, ShiftedId}}
    \cup {Named(<<<<"a", t>>, <<"error", Job2>>>>) : t \in {Job1, ShiftedId}}

\* the user calls retrieve_multiple_jobs(list_dict_file, wait_minutes = w)
RetrieveManyCall ==
    /\ pc = "idle"
    /\ \E list_dict_file \in BatchInputs, w \in {0, MaxWait} :
          LET jobdict == get_jobids_from_input(list_dict_file)
          IN  /\ call' = [op |-> "retrieve_multiple_jobs", wait |-> w, arg |-> NoArg,
                           input |-> list_dict_file]
              /\ netlog' = {}
              /\ IF jobdict = <<>> \/ HasErrorKey(jobdict)
                 THEN /\ ToUser(IF jobdict = <<>> THEN RetError(FALSE)
                                ELSE RetBatch([k \in 1..Len(jobdict) |->
                                        <<jobdict[k][1], RetData(JobRec(jobdict[k][2], ""))>>]))
                      /\ sleeps' = 0 /\ nfetch' = 0
                 ELSE EnterRetrieve(StrArg(jobdict[1][2]),
                                    [mode |-> "retrieve", todo |-> jobdict, out |-> <<>>])
    /\ UNCHANGED <<svc, last_jobid_dict>>
    /\ UNCHANGED <<idvars, vvars, qvars, rvars, svars>>

\* the identifiers cancel_multiple_jobs works on: every entry of the jobdict
\* but the one named "error"
RECURSIVE NotError(_)
NotError(jobdict) ==
    IF jobdict = <<>> THEN <<>>
    ELSE IF Head(jobdict)[1] = "error" THEN NotError(Tail(jobdict))
    ELSE <<Head(jobdict)>> \o NotError(Tail(jobdict))

\* the user calls cancel_multiple_jobs(list_dict_file): up to the bulk
\* request
CancelManyCall ==
    /\ pc = "idle"
    /\ \E list_dict_file \in BatchInputs :
          LET jobdict == get_jobids_from_input(list_dict_file)
              jobids  == NotError(jobdict)
          IN  /\ call' = [op |-> "cancel_multiple_jobs", wait |-> 0, arg |-> NoArg,
                           input |-> list_dict_file]
              /\ netlog' = {}
              /\ sleeps' = 0 /\ nfetch' = 0
              /\ IF jobids = <<>>
                 THEN ToUser(IF jobdict = <<>> THEN RetError(FALSE)
                             ELSE RetBatch([k \in 1..Len(jobdict) |->
                                     <<jobdict[k][1], RetData(JobRec(jobdict[k][2], ""))>>]))
                 ELSE /\ pc' = "bulk_put"
                      /\ batch' = [mode |-> "cancel", todo |-> jobids, out |-> <<>>]
                      /\ curid' = <<>> /\ wait_minutes' = 0 /\ flg_waitprint' = FALSE
                      /\ ret' = RetNone
    /\ UNCHANGED <<svc, last_jobid_dict>>
    /\ UNCHANGED <<idvars, vvars, qvars, rvars, svars>>

\* the identifiers of todo the service cancels on a bulk request
RECURSIVE BulkCancelled(_)
BulkCancelled(todo) ==
    IF todo = <<>> THEN <<>>
    ELSE LET rest == BulkCancelled(Tail(todo))
             id   == Head(todo)[2]
         IN  IF Cancellable(id) /\ \A k \in 1..Len(rest) : rest[k][1] # id
             THEN <<<<id, RetData(JobRec(id, "canceled"))>>>> \o rest
             ELSE rest

\* cancel_multiple_jobs: the bulk request; when it fails the jobs are
\* cancelled one by one with cancel_job
BulkPut ==
    /\ pc = "bulk_put"
    /\ \E ok \in BOOLEAN :
          LET ids  == [k \in 1..Len(batch.todo) |-> batch.todo[k][2]]
              data == BulkCancelled(batch.todo)
          IN  /\ netlog' = netlog \cup {Request("PUT", "bulk", ids, ok)}
              /\ IF ok
                 THEN /\ svc' = [j \in Jobs |->
                                   IF \E k \in 1..Len(data) : data[k][1] = j
                                   THEN "canceled" ELSE svc[j]]
                      /\ ToUser(RetBatch(data))
                      /\ UNCHANGED <<sleeps, nfetch>>
                 ELSE /\ svc' = svc
                      /\ EnterCancel(StrArg(batch.todo[1][2]), batch, sleeps, nfetch)
    /\ UNCHANGED <<last_jobid_dict, call>>
    /\ UNCHANGED <<idvars, vvars, qvars, rvars, svars>>

\* the user has taken the result; the next call can be made
TakeResult ==
    /\ pc = "done"
    /\ pc' = "idle" /\ ret' = RetNone /\ call' = NoCall /\ netlog' = {}
    /\ sleeps' = 0 /\ nfetch' = 0
    /\ UNCHANGED <<svc, last_jobid_dict, curid, wait_minutes, flg_waitprint, batch>>
    /\ UNCHANGED <<idvars, vvars, qvars, rvars, svars>>

JNext ==
    \/ ServiceStep
    \/ TakeResult
    \/ RetrieveCall
    \/ PollStep
    \/ CancelCall
    \/ CancelGet
    \/ CancelPut
    \/ RetrieveManyCall
    \/ CancelManyCall
    \/ BulkPut

JIdle == JInit

(***************************************************************************)
(* Construction and submission: __init__, submit_job and                   *)
(* submit_multiple_jobs.  A circuit is handed over as a string (the lines  *)
(* of an OPENQASM program, or other text) or as a dict.  The service gives *)
(* a submitted circuit the identifier of a job it has not used yet.        *)
(***************************************************************************)
NoSub == [many |-> FALSE, todo |-> <<>>, out |-> <<>>]

SIdle == api = "ok" /\ sub = NoSub

StrIn(prog) == [py |-> "str", prog |-> prog, hasbody |-> FALSE, circuit |-> <<>>]

DictIn(hasbody, circuit) ==
    [py |-> "dict", prog |-> <<>>, hasbody |-> hasbody, circuit |-> circuit]

GoodProgram == <<LineOPENQASM, LineInclude, LineQreg, <<Word("h"), <<Q(0)>>>>>>

UndeclaredProgram == <<LineOPENQASM, LineInclude, LineQreg, <<Word("h"), <<Q(5)>>>>>>

UnknownGateProgram ==
    <<LineOPENQASM, LineInclude, LineQreg, <<Word("barrier"), <<Q(0), Q(1)>>>>>>

SwappedProgram == <<LineInclude, LineOPENQASM, LineQreg, <<Word("h"), <<Q(0)>>>>>>

HeaderlessProgram == <<LineInclude, LineQreg, <<Word("h"), <<Q(0)>>>>>>

GoodCircuit ==
    <<Entry("gate", "cnot", "target", Scalar(6), "control", Scalar(5), "none", NoVal)>>

BadCircuit == <<Entry("gate", "foo", "target", Scalar(5), "none", NoVal, "none", NoVal)>>

SubmitCircuits ==
    { StrIn(GoodProgram), StrIn(UndeclaredProgram), StrIn(UnknownGateProgram),
      StrIn(SwappedProgram), StrIn(HeaderlessProgram),
      DictIn(TRUE, GoodCircuit), DictIn(TRUE, BadCircuit), DictIn(FALSE, <<>>) }

\* circuit_or_file.find("OPENQASM 2.0", 0, 200) >= 0
HasOPENQASM(prog) ==
    \E k \in 1..Len(prog) : \E i \in 1..(Len(prog[k]) - 1) :
        prog[k][i] = Word("OPENQASM") /\ prog[k][i + 1] = Word("2.0")

\* argtype and datastr of submit_job
ArgType(c) ==
    IF c.py = "dict" THEN "dict"
    ELSE IF HasOPENQASM(c.prog) THEN "qasm_string"
    ELSE "unknown"

PrepRaise(exc) == [kind |-> "raise", exc |-> exc, rec |-> RetNone]

PrepError(rec) == [kind |-> "error", exc |-> "", rec |-> rec]

PrepPost == [kind |-> "post", exc |-> "", rec |-> RetNone]

\* submit_job from validate_circuit to the request
CheckAndPost(circuit) ==
    IF validate_circuit(circuit).error THEN PrepError(RetErrorData) ELSE PrepPost

\* submit_job after the translation of the argument: datastr is what
\* translate_qasm returned, or the dict that was handed in
PrepareData(argtype, hasbody, datastr) ==
    IF argtype = "unknown" THEN PrepError(RetErrorQuote)
    ELSE IF datastr.kind = "raise" THEN PrepRaise(datastr.exc)
    ELSE IF datastr.kind = "None" THEN PrepError(RetErrorQuote)
    ELSE IF ~hasbody THEN PrepError(RetErrorQuote)
    ELSE CheckAndPost(datastr.circuit)

\* submit_job up to the request: what the circuit c leads to
PrepareCircuit(c) ==
    PrepareData(ArgType(c), c.py = "str" \/ c.hasbody,
                IF c.py = "str" THEN translate_qasm(c.prog)
                ELSE QBody(0, c.circuit, QNone.metadata))

\* the request is sent with the caller's list as it was handed in
PayloadRaw(circuit, checked_circuit) == circuit

\* data[body_key].update(checked_circuit): the "circuit" of the request is
\* the one validate_circuit returned
Payload(circuit, checked_circuit) == checked_circuit.circuit

\* the "circuit" of the request that submit_job sends for the circuit c
SentCircuit(c) ==
    IF c.py = "str"
    THEN Payload(translate_qasm(c.prog).circuit,
                 validate_circuit(translate_qasm(c.prog).circuit))
    ELSE Payload(c.circuit, validate_circuit(c.circuit))

\* PrepareCircuit and SentCircuit tabulated over the circuits of this
\* specification
PreparedCircuits ==
    {<<c, PrepareCircuit(c),
       IF PrepareCircuit(c).kind = "post" THEN SentCircuit(c) ELSE <<>>>> :
        c \in SubmitCircuits}

Prepare(c) == (CHOOSE r \in PreparedCircuits : r[1] = c)[2]

Sent(c) == (CHOOSE r \in PreparedCircuits : r[1] = c)[3]

\* the submission request with its "circuit"
Posted(circuit, ids, ok) == [Request("POST", "jobs", ids, ok) EXCEPT !.body = circuit]

\* the members of todo that fail before their request are recorded in out,
\* up to the first member that raises or goes to the service
RECURSIVE SubmitScan(_, _)
SubmitScan(todo, out) ==
    IF todo = <<>> THEN [kind |-> "end", exc |-> "", todo |-> todo, out |-> out]
    ELSE IF Prepare(todo[1][2]).kind = "error"
    THEN SubmitScan(Tail(todo), DictUpdate(out, todo[1][1], Prepare(todo[1][2]).rec))
    ELSE [kind |-> Prepare(todo[1][2]).kind, exc |-> Prepare(todo[1][2]).exc,
          todo |-> todo, out |-> out]

\* get_jobids_from_input on the dict {name: record} that submit_multiple_jobs
\* hands to retrieve_multiple_jobs
RECURSIVE ValidRecords(_, _, _)
ValidRecords(out, k, jobdict) ==
    IF k > Len(out) THEN jobdict
    ELSE LET v == out[k][2]
             outdict == IF v.kind = "data" THEN Checked(DictArg(v.data.id))
                        ELSE validate_jobid_hash([DictArg(<<>>) EXCEPT !.haskey = FALSE])
         IN  ValidRecords(out, k + 1,
                          IF outdict.error THEN jobdict
                          ELSE DictUpdate(jobdict, out[k][1], outdict.id))

\* all circuits are dealt with: submit_job returns or goes on to
\* retrieve_job, submit_multiple_jobs returns or goes on to
\* retrieve_multiple_jobs
SubmitFinish(many, out) ==
    /\ sub' = NoSub
    /\ IF ~many
       THEN IF out[1][2].kind = "data" /\ call'.wait > 0
            THEN EnterRetrieve(DictArg(out[1][2].data.id),
                               [mode |-> "submit", todo |-> <<>>, out |-> out])
            ELSE ToUser(out[1][2]) /\ sleeps' = 0 /\ nfetch' = 0
       ELSE IF call'.wait = 0
            THEN ToUser(RetBatch(out)) /\ sleeps' = 0 /\ nfetch' = 0
            ELSE LET jobdict == ValidRecords(out, 1, <<>>)
                 IN  IF jobdict = <<>>
                     THEN ToUser(RetError(FALSE)) /\ sleeps' = 0 /\ nfetch' = 0
                     ELSE EnterRetrieve(StrArg(jobdict[1][2]),
                                        [mode |-> "retrieve", todo |-> jobdict,
                                         out |-> <<>>])

\* the submission goes on after the scan sc of the circuits left
SubmitNext(many, sc) ==
    IF sc.kind = "raise"
    THEN /\ ToUser(RetRaise(sc.exc)) /\ sub' = NoSub
         /\ sleeps' = 0 /\ nfetch' = 0
    ELSE IF sc.kind = "post"
    THEN /\ pc' = "post"
         /\ sub' = [many |-> many, todo |-> sc.todo, out |-> sc.out]
         /\ ret' = RetNone /\ batch' = NoBatch /\ curid' = <<>>
         /\ wait_minutes' = 0 /\ flg_waitprint' = FALSE
         /\ sleeps' = 0 /\ nfetch' = 0
    ELSE SubmitFinish(many, sc.out)

\* the submission goes on with the circuits of todo
SubmitGo(many, todo, out) == SubmitNext(many, SubmitScan(todo, out))

SInit == api = "new" /\ sub = NoSub

\* __init__: without a token it returns at once; with one it asks for the
\* backends, and get_waittime asks once more when the answer is ok
Construct ==
    /\ pc = "idle" /\ api = "new"
    /\ \E token, ok, ok2 \in BOOLEAN :
          /\ api' = IF ~token THEN "no_token" ELSE IF ok THEN "ok" ELSE "rejected"
          /\ netlog' = IF ~token THEN {}
                       ELSE IF ~ok THEN {Request("GET", "backends", <<>>, FALSE)}
                       ELSE {Request("GET", "backends", <<>>, TRUE),
                             Request("GET", "backends", <<>>, ok2)}
    /\ call' = [op |-> "__init__", wait |-> 0, arg |-> NoArg, input |-> NoInput]
    /\ pc' = "done"
    /\ UNCHANGED <<svc, last_jobid_dict, curid, wait_minutes, flg_waitprint, sleeps,
                   nfetch, batch, ret, sub>>
    /\ UNCHANGED <<idvars, vvars, qvars, rvars>>

CircuitsInput(items) == [kind |-> "circuits", items |-> items]

\* submit_job on an instance whose __init__ returned early: what happens
\* before the first attribute that was never set is read
UnbuiltSubmit(c) ==
    IF ArgType(c) = "unknown" THEN RetErrorQuote
    ELSE IF ArgType(c) = "dict"
    THEN IF c.hasbody THEN RetRaise("AttributeError") ELSE RetErrorQuote
    ELSE IF Len(KeepLines(c.prog)) < 2 THEN RetRaise("IndexError")
    ELSE IF translate_qasm(c.prog).kind = "None" THEN RetErrorQuote
    ELSE RetRaise("AttributeError")

UnbuiltOps ==
    {"retrieve_job", "cancel_job", "retrieve_multiple_jobs", "cancel_multiple_jobs",
     "submit_multiple_jobs"}

\* a call on an instance whose __init__ returned early
UnbuiltCall ==
    /\ pc = "idle" /\ api = "no_token"
    /\ \/ \E c \in SubmitCircuits :
             /\ call' = [op |-> "submit_job", wait |-> 0, arg |-> NoArg,
                         input |-> CircuitsInput(<<c>>)]
             /\ ToUser(UnbuiltSubmit(c))
       \/ \E op \in UnbuiltOps :
             /\ call' = [op |-> op, wait |-> 0, arg |-> NoArg, input |-> NoInput]
             /\ ToUser(RetRaise("AttributeError"))
    /\ netlog' = {} /\ sleeps' = 0 /\ nfetch' = 0
    /\ UNCHANGED <<svc, last_jobid_dict, api, sub>>
    /\ UNCHANGED <<idvars, vvars, qvars, rvars>>

\* the user calls submit_job(circuit_or_file, wait_minutes = w)
SubmitCall ==
    /\ pc = "idle" /\ api \in {"rejected", "ok"}
    /\ \E c \in SubmitCircuits, w \in {0, MaxWait} :
          /\ call' = [op |-> "submit_job", wait |-> w, arg |-> NoArg,
                      input |-> CircuitsInput(<<c>>)]
          /\ SubmitGo(FALSE, <<<<"circuit", c>>>>, <<>>)
    /\ netlog' = {}
    /\ UNCHANGED <<svc, last_jobid_dict, api>>
    /\ UNCHANGED <<idvars, vvars, qvars, rvars>>

\* the members of a list of circuits: one that is submitted, one that fails
\* validation and one whose translation raises
BatchCircuits ==
    {DictIn(TRUE, GoodCircuit), DictIn(TRUE, BadCircuit), StrIn(UndeclaredProgram)}

SubmitLists == UNION {[1..n -> BatchCircuits] : n \in 1..MaxBatch}

\* the user calls submit_multiple_jobs(list_of_circuits, wait_minutes = w)
SubmitManyCall ==
    /\ pc = "idle" /\ api \in {"rejected", "ok"}
    /\ \E circs \in SubmitLists, w \in {0, MaxWait} :
          /\ call' = [op |-> "submit_multiple_jobs", wait |-> w, arg |-> NoArg,
                      input |-> CircuitsInput(circs)]
          /\ SubmitGo(TRUE,
                      [j \in 1..Len(circs) |-> <<"circuit_" \o ToString(j - 1), circs[j]>>],
                      <<>>)
    /\ netlog' = {}
    /\ UNCHANGED <<svc, last_jobid_dict, api>>
    /\ UNCHANGED <<idvars, vvars, qvars, rvars>>

\* the retry that is not there: a request that failed is sent again
RemainingRetry(todo, ok) == IF ok THEN Tail(todo) ELSE todo

\* what is left to submit after one request: the request is made once per
\* circuit and its answer, ok or not, is the circuit's result
Remaining(todo, ok) == Tail(todo)

\* submit_job: the request; the service answers ok with the record of a
\* new job, or not ok
PostStep ==
    /\ pc = "post"
    /\ UNCHANGED call
    /\ \E ok \in BOOLEAN, j \in Jobs :
          LET outdata == JobRec(j, "ready")
              job     == IF ok THEN RetData(outdata) ELSE RetError(FALSE)
          IN  /\ IF ok THEN svc[j] = "none" ELSE j = Job1
              /\ netlog' = netlog \cup
                    {Posted(Sent(sub.todo[1][2]), IF ok THEN <<j>> ELSE <<>>, ok)}
              /\ svc' = IF ok THEN [svc EXCEPT ![j] = "ready"] ELSE svc
              /\ last_jobid_dict' = IF ok /\ (sub.many \/ call.wait = 0)
                                    THEN outdata ELSE last_jobid_dict
              /\ SubmitGo(sub.many, Remaining(sub.todo, ok),
                          DictUpdate(sub.out, sub.todo[1][1], job))
    /\ UNCHANGED api
    /\ UNCHANGED <<idvars, vvars, qvars, rvars>>

\* submit_job after its retrieve_job: an error is added to the record of
\* the request, a record takes its place
SubmitEnd ==
    /\ pc = "submit_end"
    /\ LET outdata == IF ret.kind = "error" THEN batch.out[1][2].data ELSE ret.data
       IN  /\ last_jobid_dict' = outdata
           /\ ToUser(IF ret.kind = "error" THEN RetMerged(outdata) ELSE ret)
    /\ UNCHANGED <<svc, call, netlog, sleeps, nfetch>>
    /\ UNCHANGED svars
    /\ UNCHANGED <<idvars, vvars, qvars, rvars>>

SNext ==
    \/ Construct
    \/ UnbuiltCall
    \/ SubmitCall
    \/ SubmitManyCall
    \/ PostStep
    \/ SubmitEnd
    \/ PollStep
    \/ ServiceStep
    \/ TakeResult

\* the client before any job exists
JFresh ==
    /\ svc = [j \in Jobs |-> "none"]
    /\ last_jobid_dict = Placeholder
    /\ pc = "idle" /\ call = NoCall /\ curid = <<>> /\ wait_minutes = 0
    /\ flg_waitprint = FALSE /\ netlog = {} /\ sleeps = 0 /\ nfetch = 0
    /\ batch = NoBatch /\ ret = RetNone

(***************************************************************************)
(* The specifications: one per part of the class, the variables of the     *)
(* other parts standing still.                                             *)
(***************************************************************************)
InitJobId == IdInit /\ VIdle /\ QIdle /\ RIdle /\ JIdle /\ SIdle

SpecJobId == InitJobId /\ [][IdNext]_vars

InitValidate == VInit /\ IdIdle /\ QIdle /\ RIdle /\ JIdle /\ SIdle

SpecValidate == InitValidate /\ [][VNext]_vars

InitQasm == QInit /\ IdIdle /\ VIdle /\ RIdle /\ JIdle /\ SIdle

SpecQasm == InitQasm /\ [][QNext]_vars

InitQasmText == TInit /\ IdIdle /\ VIdle /\ RIdle /\ JIdle /\ SIdle

SpecQasmText == InitQasmText /\ [][TNext]_vars

InitRecon == RInit /\ IdIdle /\ VIdle /\ QIdle /\ JIdle /\ SIdle

SpecRecon == InitRecon /\ [][RNext]_vars

InitJobs == JInit /\ IdIdle /\ VIdle /\ QIdle /\ RIdle /\ SIdle

SpecJobs == InitJobs /\ [][JNext]_vars

\* retrieve_job on its own; the loop, once entered, keeps running
RetrieveNext == ServiceStep \/ TakeResult \/ RetrieveCall \/ PollStep

SpecRetrieveLive == InitJobs /\ [][RetrieveNext]_vars /\ WF_vars(PollStep)

\* {'id': id}
IdRecord(id) == [Placeholder EXCEPT !.id = id]

\* set_jobid_dict returns self
RetSelf == [RetNone EXCEPT !.kind = "self"]

DictNoKey == [DictArg(<<>>) EXCEPT !.haskey = FALSE]

\* what the user hands to set_jobid_dict: nothing, a text, a dict with or
\* without "id", a list
SetArgs ==
    UserArgs \cup {DictArg(t) : t \in IdPool} \cup {DictNoKey}
        \cup {ListArg(<<t>>) : t \in {Job2, ShiftedId}}

\* set_jobid_dict: mydict, the checked identifier; a missing argument or a
\* dict without "id" ends the call like an error does
SetCheck(jobid_dict) ==
    IF jobid_dict.type = "None" THEN IdError
    ELSE IF jobid_dict.type = "str" THEN Checked(jobid_dict)
    ELSE IF jobid_dict.type = "dict"
    THEN IF jobid_dict.haskey THEN Checked(StrArg(jobid_dict.id)) ELSE IdError
    ELSE Checked(StrArg(jobid_dict.ids[1]))

\* a slot that takes whatever is handed in
SlotAfterSetAlways(slot, jobid_dict, mydict) == IdRecord(jobid_dict.id)

\* self.last_jobid_dict = jobid_dict if isinstance(jobid_dict, dict) else
\* mydict, reached only when mydict holds no error
SlotAfterSet(slot, jobid_dict, mydict) ==
    IF mydict.error THEN slot
    ELSE IF jobid_dict.type = "dict" THEN IdRecord(jobid_dict.id)
    ELSE IdRecord(mydict.id)

\* the user calls set_jobid_dict(jobid_dict)
SetCall ==
    /\ pc = "idle"
    /\ \E jobid_dict \in SetArgs :
          /\ call' = [op |-> "set_jobid_dict", wait |-> 0, arg |-> jobid_dict,
                      input |-> NoInput]
          /\ last_jobid_dict' =
                SlotAfterSet(last_jobid_dict, jobid_dict, SetCheck(jobid_dict))
          /\ ToUser(IF SetCheck(jobid_dict).error THEN RetNone ELSE RetSelf)
    /\ netlog' = {} /\ sleeps' = 0 /\ nfetch' = 0
    /\ UNCHANGED svc
    /\ UNCHANGED <<idvars, vvars, qvars, rvars, svars>>

\* the single-job operations of a constructed client, on a service that
\* holds no job yet
ClientNext ==
    \/ SetCall
    \/ SubmitCall
    \/ PostStep
    \/ SubmitEnd
    \/ RetrieveCall
    \/ PollStep
    \/ CancelCall
    \/ CancelGet
    \/ CancelPut
    \/ ServiceStep
    \/ TakeResult

InitClient == JFresh /\ SIdle /\ IdIdle /\ VIdle /\ QIdle /\ RIdle

SpecClient == InitClient /\ [][ClientNext]_vars

InitSubmit == SInit /\ JFresh /\ IdIdle /\ VIdle /\ QIdle /\ RIdle

SpecSubmit == InitSubmit /\ [][SNext]_vars

(***************************************************************************)
(* Vocabulary of the claims about validate_circuit.                        *)
(***************************************************************************)
Validated == vphase \in {"validated", "revalidated"}

NumTargets(e) == IF e.tkey = "none" THEN 0 ELSE Len(e.t.v)

NumControls(e) == IF e.ckey = "none" THEN 0 ELSE Len(e.c.v)

\* the (targets, controls) pair of e is the arity of a gate class whose
\* canonical names include the gate of e
ArityMatchesClass(e) ==
    LET nt == NumTargets(e)
        nc == NumControls(e)
    IN  \/ nt = 1 /\ nc = 0 /\ e.gate \in Values(gates_1q)
        \/ nt = 1 /\ nc = 1 /\ e.gate \in Values(gates_2q_ctl)
        \/ nt = 2 /\ nc = 0 /\ e.gate \in Values(gates_2q_noctl)
        \/ nt = 1 /\ nc >= 2 /\ e.gate \in Values(gates_mq)

IsSpecial(e) == e.gkey = "gate" /\ e.gate \in {"sswap", "iswap", "siswap", "cswap"}

\* no field of e needs a shape correction
WellShaped(e) ==
    /\ e.gkey = "gate"
    /\ (e.tkey = "target" /\ ~e.t.list) \/ (e.tkey = "targets" /\ e.t.list)
    /\ \/ e.ckey = "none"
       \/ e.ckey = "control" /\ ~e.c.list
       \/ e.ckey = "controls" /\ e.c.list
    /\ e.pkey \in {"none", "parameter", "rotation"} \/ e.p.list

\* the number of operations entry e contributes to a successful result
OutCount(e) ==
    IF e.gkey # "gate" THEN 0
    ELSE IF IsSpecial(e) THEN Len(gates_special[e.gate].body)
    ELSE 1

RECURSIVE SumOutCount(_, _)
SumOutCount(c, n) == IF n = 0 THEN 0 ELSE SumOutCount(c, n - 1) + OutCount(c[n])

\* where the output of entry j (from 1) starts in a successful result
OutPos(c, j) == 1 + SumOutCount(c, j - 1)

(***************************************************************************)
(* C4: every operation in the circuit returned by a successful             *)
(* validate_circuit has a (targets, controls) pair that is the arity of a  *)
(* gate class containing its gate name.                                    *)
(***************************************************************************)
C4_ArityInvariant ==
    (Validated /\ ~vres.error) =>
        \A k \in 1..Len(vres.circuit) : ArityMatchesClass(vres.circuit[k])

(***************************************************************************)
(* C6: validating the circuit returned by a successful validate_circuit    *)
(* succeeds, returns the same operations and an empty updated_entries.     *)
(***************************************************************************)
C6_Idempotent ==
    vphase = "revalidated" =>
        /\ ~vres2.error
        /\ vres2.circuit = vres.circuit
        /\ vres2.updated_entries = <<>>

(***************************************************************************)
(* C7: a special gate supplied with a number of targets or of controls     *)
(* other than its declared arity makes validate_circuit return an error    *)
(* naming the gate and the entry index, with no operations; when the       *)
(* numbers match, every index of the macro body lies within the supplied   *)
(* targets + controls.                                                     *)
(***************************************************************************)
\* the loop reaches entry j: no earlier entry ends it
Reaches(c, j) == \A i \in 1..(j - 1) : EntryStep(c[i]).kind # "error"

DeclaredArity(e) ==
    /\ NumTargets(e) = Len(gates_special[e.gate].tgt)
    /\ NumControls(e) = Len(gates_special[e.gate].ctl)

C7_SpecialArity ==
    Validated =>
        \A j \in 1..Len(vin) :
            (IsSpecial(vin[j]) /\ Reaches(vin, j)) =>
                IF DeclaredArity(vin[j])
                THEN LET body == gates_special[vin[j].gate].body
                         n    == NumTargets(vin[j]) + NumControls(vin[j])
                     IN  \A k \in 1..Len(body) :
                            \A i \in Range(body[k].t) \cup Range(body[k].c) :
                                0 <= i /\ i < n
                ELSE /\ vres.error
                     /\ vres.index = j - 1
                     /\ vres.gate = vin[j].gate
                     /\ vres.circuit = <<>>

\* a special gate with one target only came after an entry that had
\* already produced an operation
C7_Witness ==
    /\ Validated /\ Len(vin) = 2
    /\ EntryStep(vin[1]).kind = "ops"
    /\ IsSpecial(vin[2]) /\ vin[2].tkey # "none" /\ NumTargets(vin[2]) = 1
    /\ vres.error /\ vres.index = 1

(***************************************************************************)
(* C8: an entry that needs no shape correction and whose gate name is      *)
(* canonical for its arity class is, in a successful result, the identical *)
(* record at its place in the output, and its index is not in              *)
(* updated_entries.                                                        *)
(***************************************************************************)
C8_PassThrough ==
    (Validated /\ ~vres.error) =>
        \A j \in 1..Len(vin) :
            (WellShaped(vin[j]) /\ ArityMatchesClass(vin[j])) =>
                /\ vres.circuit[OutPos(vin, j)] = vin[j]
                /\ (j - 1) \notin Range(vres.updated_entries)

\* {"gate": "h", "target": 0} passed through behind a macro expansion
C8_Witness ==
    /\ Validated /\ ~vres.error /\ Len(vin) = 2
    /\ IsSpecial(vin[1])
    /\ vin[2] = Entry("gate", "h", "target", Scalar(0), "none", NoVal, "none", NoVal)
    /\ vres.circuit[4] = vin[2]
    /\ vres.updated_entries = <<0>>

(***************************************************************************)
(* C9: updated_entries is the increasing list of exactly the indices of    *)
(* the entries that were macro-expanded or rewritten; a rewritten entry    *)
(* that is no macro has the form {gate, targets: list, controls: list when *)
(* non-empty}; {"gate":"x","target":[a],"control":b} becomes               *)
(* {"gate":"x","targets":[a],"controls":[b]}.                              *)
(***************************************************************************)
Rewritten(j) ==
    /\ vin[j].gkey = "gate" /\ ~IsSpecial(vin[j])
    /\ vres.circuit[OutPos(vin, j)] # vin[j]

RewrittenForm(e) ==
    /\ e.gkey = "gate"
    /\ e.tkey = "targets" /\ e.t.list
    /\ \/ e.ckey = "none"
       \/ e.ckey = "controls" /\ e.c.list /\ Len(e.c.v) > 0

C9_UpdatedEntries ==
    (Validated /\ ~vres.error) =>
        LET upd == vres.updated_entries
        IN  /\ \A a, b \in 1..Len(upd) : a < b => upd[a] < upd[b]
            /\ Range(upd) = {j - 1 : j \in {i \in 1..Len(vin) :
                                              IsSpecial(vin[i]) \/ Rewritten(i)}}
            /\ \A j \in 1..Len(vin) :
                  Rewritten(j) => RewrittenForm(vres.circuit[OutPos(vin, j)])
            /\ \A j \in 1..Len(vin) :
                  ( /\ vin[j].gkey = "gate" /\ vin[j].gate = "x"
                    /\ vin[j].tkey = "target" /\ vin[j].t.list /\ Len(vin[j].t.v) = 1
                    /\ vin[j].ckey = "control" /\ ~vin[j].c.list
                    /\ vin[j].pkey = "none" )
                  => vres.circuit[OutPos(vin, j)] =
                        Entry("gate", "x", "targets", List(vin[j].t.v),
                              "controls", List(vin[j].c.v), "none", NoVal)

\* the shape-corrected entry of the example, behind a renamed entry
C9_Witness ==
    /\ Validated /\ ~vres.error /\ Len(vin) = 2
    /\ vin[1].gate = "cnot"
    /\ vin[2] = Entry("gate", "x", "target", List(<<0>>), "control", Scalar(10),
                      "none", NoVal)
    /\ vres.updated_entries = <<0, 1>>

(***************************************************************************)
(* C2 (as stated): validate_jobid_hash accepts a string if and only if the *)
(* string itself is 36 characters long, has exactly 4 hyphens and its five *)
(* hyphen-delimited groups have lengths 8,4,4,4,12 and hold only hex       *)
(* digits (of either case).                                                *)
(***************************************************************************)
AnyHexChars == HexChars \cup {"A", "B", "C", "D", "E", "F"}

HyphenPos == {9, 14, 19, 24}

\* 36 characters, hyphens exactly at the four group boundaries, and only
\* characters of `digits` elsewhere
UidShape(s, digits) ==
    /\ Len(s) = 36
    /\ \A i \in 1..Len(s) :
          IF i \in HyphenPos THEN s[i] = "-" ELSE s[i] \in digits

C2_AsStated ==
    idphase = "done" => (~idres.error <=> UidShape(idstr, AnyHexChars))

(***************************************************************************)
(* C2 (amended): validate_jobid_hash accepts a string if and only if the   *)
(* string with its leading and trailing whitespace removed is 36           *)
(* characters long with hyphens exactly after groups of 8,4,4,4 characters *)
(* and only the characters 0-9 and lowercase a-f elsewhere; the id it      *)
(* returns is that stripped string, and every other string is an error.    *)
(***************************************************************************)
C2_Accepts ==
    idphase = "done" =>
        /\ ~idres.error <=> UidShape(Strip(idstr), HexChars)
        /\ ~idres.error => idres.id = Strip(idstr)

\* a padded identifier was accepted
C2_Witness ==
    /\ idphase = "done" /\ ~idres.error
    /\ Len(idstr) = 37 /\ idstr[1] = " "

(***************************************************************************)
(* C5: for a well-formed program without custom gates and with at least    *)
(* one instruction, translate_qasm followed by validate_circuit yields an  *)
(* operation list with one operation for every statement that is neither a *)
(* declaration (header, qreg, creg) nor a measure statement.               *)
(***************************************************************************)
IsStatement(line) ==
    /\ line # <<>>
    /\ FirstWord(line) \notin {"//", "OPENQASM", "include", "qreg", "creg", "measure"}

StatementCount(prog) == Cardinality({k \in 1..Len(prog) : IsStatement(prog[k])})

\* the header comes first, a qubit register is declared right after it, and
\* every operand names a declared qubit or bit
WellFormedProgram(prog) ==
    /\ Len(prog) >= 3
    /\ prog[1] = LineOPENQASM /\ prog[2] = LineInclude /\ prog[3] = LineQreg
    /\ \A k \in 4..Len(prog) :
          (prog[k] # <<>> /\ FirstWord(prog[k]) \notin {"//", "qreg", "creg"}) =>
              \A w \in 2..Len(prog[k]) : \A i \in 1..Len(prog[k][w]) :
                  prog[k][w][i].idx < 3

C5_RoundTrip ==
    (qphase \in {"translated", "validated"}
        /\ WellFormedProgram(qprog) /\ StatementCount(qprog) > 0) =>
            /\ qbody.kind = "body"
            /\ qphase = "validated" =>
                  /\ ~qres.error
                  /\ Len(qres.circuit) = StatementCount(qprog)

(***************************************************************************)
(* C1: for every raw histogram of a completed job and every positive shot  *)
(* count, retrieve_job builds a counts map, and its values sum to exactly  *)
(* the shot count.                                                         *)
(***************************************************************************)
C1_CountsSumToShots ==
    rphase = "done" =>
        /\ rres.kind = "ok"
        /\ SumValues(rres.counts) = ValDen * rshots

(***************************************************************************)
(* Claims about the calls that reach the network.                          *)
(***************************************************************************)
\* the identifier the call is made for when it names one job
GivenArg == IF call.arg.type = "None" THEN DictArg(last_jobid_dict.id) ELSE call.arg

\* the identifiers a call may send: the validated forms of what the user
\* gave, or of the identifier in the last-job slot
Admitted ==
    {validate_jobid_hash(StrArg(t)).id :
        t \in {u \in IdPool \cup Jobs : ~validate_jobid_hash(StrArg(u)).error}}

NoValidItem(input) ==
    \A k \in 1..Len(input.items) :
        validate_jobid_hash(StrArg(input.items[k][2])).error

C10_OneFetchNoSleep ==
    (pc = "done" /\ call.op = "retrieve_job" /\ call.wait = 0
     /\ ~validate_jobid_hash(GivenArg).error)
        => (nfetch = 1 /\ sleeps = 0)

\* the call is a retrieve_job that passed the identifier check and has
\* returned
RetrieveDone ==
    /\ pc = "done" /\ call.op = "retrieve_job"
    /\ ~validate_jobid_hash(GivenArg).error

\* a status request of the call was answered with a job record
RecordObserved == \E r \in netlog : r.path = "jobs" /\ r.ok

\* the call saw the status completed: it asked for the results
CompletedObserved == \E r \in netlog : r.path = "results"

\* C11: a retrieve_job call that saw a job record but never a terminal
\* status, and whose wait budget ran out, returns the last-observed job
\* record (the one held in the last-job slot), not an error and not an
\* exception.
C11_BudgetReturnsRecord ==
    (RetrieveDone /\ RecordObserved /\ ~CompletedObserved
     /\ last_jobid_dict.status \notin {"failed", "canceled"})
        => (ret.kind = "data" /\ ret.data = last_jobid_dict)

\* the job records a returned call hands to the user
ReturnedRecords ==
    IF ret.kind = "data" THEN {ret.data}
    ELSE IF ret.kind = "batch"
    THEN {ret.out[k][2].data : k \in {i \in 1..Len(ret.out) : ret.out[i][2].kind = "data"}}
    ELSE {}

\* C12: every record with status completed that retrieve_job returns (to the
\* user, or to retrieve_multiple_jobs) holds results with a counts map and a
\* probabilities map, reconciled in that call from a histogram fetched in
\* that call; a completed record is never returned without results.
C12_CompletedHasResults ==
    (pc = "done" /\ call.op \in {"retrieve_job", "retrieve_multiple_jobs"}) =>
        \A d \in ReturnedRecords :
            d.status = "completed" =>
                /\ d.hasresults
                /\ d.results.kind = "ok"
                /\ \E resdata \in JobHistograms :
                      d.results = Reconcile(resdata, d.shots, d.qubits)
                /\ \E r \in netlog :
                      r.path = "results" /\ r.ok /\ r.ids = <<d.id>>

\* a completed job came back with its results after a wait
C12_Witness ==
    /\ RetrieveDone /\ call.wait = MaxWait
    /\ ret.kind = "data" /\ ret.data.status = "completed"
    /\ ret.data.hasresults /\ Len(ret.data.results.counts) > 0
    /\ nfetch > 1

NoteStatuses == {"completed", "failed", "canceled", "running"}

CancelRequests(log) == {r \in log : r.verb = "PUT" /\ r.path = "cancel"}

\* C13: cancel_job (called by the user or by cancel_multiple_jobs) sends the
\* cancel request only from the step that follows a status request answered
\* ok with a status other than completed, failed, canceled or running; when
\* the fetched status is one of those four it sends no cancel request and
\* returns the job record with the NOTE.
C13_CancelOnlyIfPending ==
    [][ /\ (pc' = "cancel_put" /\ pc # "cancel_put") =>
              /\ pc = "cancel_get"
              /\ svc[curid] \notin NoteStatuses
              /\ Request("GET", "jobs", <<curid>>, TRUE) \in netlog'
        /\ (CancelRequests(netlog') \ CancelRequests(netlog) # {}) =>
              /\ pc = "cancel_put"
              /\ CancelRequests(netlog') \ CancelRequests(netlog) \subseteq
                    {Request("PUT", "cancel", <<curid>>, b) : b \in BOOLEAN}
        /\ ( /\ pc = "cancel_get"
             /\ Request("GET", "jobs", <<curid>>, TRUE) \in netlog'
             /\ svc[curid] \in NoteStatuses ) =>
              /\ pc' # "cancel_put"
              /\ CancelRequests(netlog') = CancelRequests(netlog)
              /\ batch.mode = "none" =>
                    ret' = RetData([JobRec(curid, svc[curid]) EXCEPT !.note = TRUE])
      ]_vars

\* cancel_job declined to cancel a running job
C13_Witness ==
    /\ pc = "done" /\ call.op = "cancel_job"
    /\ ret.kind = "data" /\ ret.data.status = "running" /\ ret.data.note
    /\ netlog = {Request("GET", "jobs", <<ret.data.id>>, TRUE)}

SubmitDone(op) == pc = "done" /\ call.op = op /\ api = "ok"

\* C14: whenever submit_job fails, by a translation or validation error or
\* by an error on the submission request, it returns (never raises) an
\* error record that holds the submitted payload, under its own key or
\* quoted in the message, next to 'error'.
C14_FailureCarriesPayload ==
    SubmitDone("submit_job") =>
        \/ ret.kind \in {"data", "merged"}
        \/ ret.kind = "error" /\ ret.payload \in {"data", "message"}

\* C15: submit_multiple_jobs on a list of n circuits returns a mapping with
\* exactly n entries, one per circuit name, whatever wait_minutes is; a
\* member that fails is present with its error record.
C15_OneEntryPerCircuit ==
    SubmitDone("submit_multiple_jobs") =>
        /\ ret.kind = "batch"
        /\ Len(ret.out) = Len(call.input.items)
        /\ \A j \in 1..Len(ret.out) : ret.out[j][1] = "circuit_" \o ToString(j - 1)

\* C19: on an instance whose construction did not establish access (no
\* token, or the backends request rejected) every later operation returns
\* an error, raises nothing and sends no request.
C19_NoAccessDisablesAll ==
    (pc = "done" /\ api \in {"no_token", "rejected"} /\ call.op # "__init__") =>
        /\ ret.kind = "error"
        /\ netlog = {}

\* C16: cancel_multiple_jobs sends the bulk cancel request first and
\* per-job cancel requests only after the bulk request was not ok; every
\* job in the returned 'ids' was cancelled by a cancel request of this call
\* that was answered ok.
C16_CountsOnlyConfirmed ==
    /\ (call.op = "cancel_multiple_jobs" /\ CancelRequests(netlog) # {}) =>
           \E r \in netlog : r.verb = "PUT" /\ r.path = "bulk" /\ ~r.ok
    /\ ( /\ pc = "done" /\ call.op = "cancel_multiple_jobs" /\ ret.kind = "batch"
         /\ \E r \in netlog : r.path = "bulk" ) =>
           \A k \in 1..Len(ret.out) :
               \E r \in netlog :
                   /\ r.verb = "PUT" /\ r.ok
                   /\ \E i \in 1..Len(r.ids) : r.ids[i] = ret.out[k][1]

\* C17: translate_qasm never raises: for every input, the empty one, one
\* with fewer than two statements, one without the header and one whose
\* operands name an undeclared qubit included, it returns the JSON body or
\* None.
C17_TranslateNeverRaises ==
    qphase \in {"translated", "validated"} => qbody.kind \in {"body", "None"}

\* the mnemonics of BodyLines that are written with a parameter list
Parameterised == {"rx(0.5)"}

TableKeys == Keys(gates_1q) \cup Keys(gates_2q_ctl) \cup Keys(gates_2q_noctl)
             \cup Keys(gates_mq)

\* an instruction whose mnemonic is in none of the gate tables
InNoTable(line) ==
    IsStatement(line) /\ FirstWord(line) \notin TableKeys \cup Parameterised

\* C18: an instruction whose mnemonic is in no gate table is not dropped by
\* translate_qasm: the emitted circuit holds an entry with that mnemonic,
\* and validate_circuit then reports an error for the circuit.
C18_UnknownMnemonicKept ==
    (qphase \in {"translated", "validated"} /\ qbody.kind = "body") =>
        \A k \in 1..Len(qprog) : InNoTable(qprog[k]) =>
            /\ \E i \in 1..Len(qbody.circuit) :
                  qbody.circuit[i].gate = FirstWord(qprog[k])
            /\ qphase = "validated" => qres.error

\* the status request of this step was answered ok
StatusAnswered ==
    \/ Request("GET", "jobs", <<curid>>, TRUE) \in netlog' \ netlog
    \/ last_jobid_dict' # last_jobid_dict

\* this step of the loop observed failed, canceled, or completed together
\* with its results
TerminalSeen ==
    /\ pc = "poll" /\ curid \in Jobs /\ StatusAnswered
    /\ \/ svc[curid] \in {"failed", "canceled"}
       \/ /\ svc[curid] = "completed"
          /\ Request("GET", "results", <<curid>>, TRUE) \in netlog'

\* C20: retrieve_job terminates for every wait_minutes W >= 0 and every
\* sequence of answers: it sends at most 4*W+1 status requests, the loop
\* ends with the step that observes failed, canceled or completed with
\* results (no status request follows), and a call that is in its loop
\* returns.
C20_RetrieveTerminates ==
    /\ [](pc = "poll" => nfetch <= 4 * call.wait)
    /\ [](RetrieveDone => nfetch <= 4 * call.wait + 1)
    /\ [][TerminalSeen => pc' = "done"]_vars
    /\ (pc = "poll") ~> (pc = "done")

\* a retrieve_job that used its whole budget
C20_Witness ==
    /\ RetrieveDone /\ call.wait = MaxWait
    /\ nfetch = 4 * MaxWait + 1 /\ sleeps = 4 * MaxWait + 1
    /\ ret.kind = "error"

(***************************************************************************)
(* C21: one submission request per submit_job, one cancel request per      *)
(* cancel_job, a failed request reported once and never sent again         *)
(***************************************************************************)

FailedPost(log) == \E r \in log : r.verb = "POST" /\ ~r.ok

FailedPut(log) == Request("PUT", "cancel", <<curid>>, FALSE) \in log

\* a step that sends a request
Sends == netlog' \ netlog # {}

\* C21: in a call of submit_job the submission request is reached only from
\* the start of the call and the step that sends it leaves it for good, so
\* that one call sends at most one submission; likewise the cancel request of
\* cancel_job is reached only from the call's status request and sent once;
\* a submission or cancel request that fails ends the call with an error
\* result; the only step that sends a request and stays where it is, is the
\* status poll of retrieve_job
C21_NoRetry ==
    [][ /\ (pc # "post" /\ pc' = "post") => pc = "idle"
        /\ (pc = "post" /\ Sends) => pc' # "post"
        /\ (pc # "cancel_put" /\ pc' = "cancel_put") => pc = "cancel_get"
        /\ (pc # "cancel_get" /\ pc' = "cancel_get") => pc = "idle"
        /\ (pc = "cancel_put" /\ Sends) => pc' = "done"
        /\ (pc = "cancel_get" /\ Sends) => pc' \in {"done", "cancel_put"}
        /\ (pc = "post" /\ FailedPost(netlog'))
              => pc' = "done" /\ ret'.kind = "error"
        /\ (pc = "cancel_put" /\ FailedPut(netlog'))
              => pc' = "done" /\ ret'.kind = "error"
        /\ (Sends /\ pc' = pc) => pc = "poll"
      ]_vars

\* both failures have been reported: a submit_job whose request failed and a
\* cancel_job whose cancel request failed have returned an error
C21_Witness ==
    /\ pc = "done" /\ ret.kind = "error"
    /\ \/ call.op = "submit_job" /\ FailedPost(netlog)
       \/ call.op = "cancel_job" /\ FailedPut(netlog)

(***************************************************************************)
(* C22: the indices of the emitted operations and the emitted qubit count  *)
(***************************************************************************)

\* the target and control indices of the emitted circuit
EmittedIndices ==
    UNION {Range(qbody.circuit[k].t.v) \cup Range(qbody.circuit[k].c.v) :
              k \in 1..Len(qbody.circuit)}

\* C22: in a body emitted by translate_qasm every target and control index
\* is at least 0 and less than the emitted "qubits" count
C22_IndicesBelowQubits ==
    (qphase = "translated" /\ qbody.kind = "body")
        => \A i \in EmittedIndices : 0 <= i /\ i < qbody.qubits

(***************************************************************************)
(* C23: the measurement map holds declared qubits only, and a measure      *)
(* statement never ends the translation                                    *)
(***************************************************************************)

TextMeasure == <<"m", "e", "a", "s", "u", "r", "e">>

\* the program without its measure statements
WithoutMeasures(prog) == SelectSeq(prog, LAMBDA l : ~StartsWith(l, TextMeasure))

\* C23: every entry of the emitted measurement map takes the index of a
\* declared qubit to the index of a classical bit, and a program that
\* translates without its measure statements translates with them: an
\* operand that names no declared qubit is dropped without error
C23_MeasureDeclaredOnly ==
    qphase = "translated" =>
        /\ qbody.kind = "body" =>
              \A k \in 1..Len(qbody.metadata.measure) :
                  /\ qbody.metadata.measure[k][1] \in 0..(qbody.qubits - 1)
                  /\ ~qbody.metadata.measure[k][2].text
        /\ qbody.kind = "raise" =>
              translate_qasm_text(WithoutMeasures(qprog)).kind = "raise"

(***************************************************************************)
(* C24: a custom gate invocation is replaced by the gate's statements with *)
(* the formal parameters replaced, all at once, by the operands            *)
(***************************************************************************)

RECURSIVE JoinWith(_, _)
JoinWith(texts, sep) ==
    IF Len(texts) = 0 THEN <<>>
    ELSE IF Len(texts) = 1 THEN texts[1]
    ELSE texts[1] \o <<sep>> \o JoinWith(Tail(texts), sep)

\* the operand that takes the place of item: the actual operand at the
\* position of the formal parameter that item is, item itself otherwise
Actual(item, qbits, qubits) ==
    IF \E i \in 1..Min(Len(qbits), Len(qubits)) : qbits[i] = item
    THEN qubits[CHOOSE i \in 1..Min(Len(qbits), Len(qubits)) : qbits[i] = item]
    ELSE item

\* one statement of a definition with the operands in place of the formal
\* parameters: the mnemonic is left alone and every operand is replaced once
Applied(op, qbits, qubits) ==
    LET ws == Split(op, " ")
    IN  JoinWith([k \in 1..Len(ws) |->
                    IF k = 1 THEN ws[k]
                    ELSE LET its == Split(ws[k], ",")
                         IN  JoinWith([i \in 1..Len(its) |->
                                          Actual(its[i], qbits, qubits)], ",")],
                 " ")

\* the definitions of a program, by name
Definitions(lines) ==
    LET gate_list == SelectSeq(lines, LAMBDA l : StartsWith(l, TextGateSp))
    IN  [k \in 1..Len(gate_list) |-> ParseGate(gate_list[k])]

IsDefined(defs, name) == \E k \in 1..Len(defs) : defs[k].name = name

Definition(defs, name) ==
    defs[CHOOSE k \in 1..Len(defs) :
            defs[k].name = name /\ \A j \in (k + 1)..Len(defs) : defs[j].name # name]

\* the statements that stand for the invocation "name operands": the body
\* of the definition applied to the operands; when the body is a single
\* reference to another custom gate, that gate's body applied to the
\* operands the reference passes
Invocation(defs, name, qubits) ==
    LET g    == Definition(defs, name)
        body == [i \in 1..Len(g.deflist) |-> Applied(g.deflist[i], g.qbits, qubits)]
        ref  == Split(body[1], " ")
    IN  IF Len(body) = 1 /\ Len(ref) >= 2 /\ IsDefined(defs, ref[1])
           /\ Len(Definition(defs, ref[1]).deflist) > 1
        THEN LET h == Definition(defs, ref[1])
             IN  [i \in 1..Len(h.deflist) |->
                     Applied(h.deflist[i], h.qbits, Split(ref[2], ","))]
        ELSE body

RECURSIVE ExpandAsStated(_, _, _)
ExpandAsStated(lines, k, out) ==
    IF k > Len(lines) THEN [exc |-> "", lines |-> out]
    ELSE LET vals == Split(lines[k], " ")
             defs == Definitions(lines)
         IN  IF StartsWith(lines[k], TextGateSp)
             THEN ExpandAsStated(lines, k + 1, out)
             ELSE IF IsDefined(defs, vals[1]) /\ Len(vals) >= 2
             THEN ExpandAsStated(lines, k + 1,
                     out \o Invocation(defs, vals[1], Split(vals[2], ",")))
             ELSE ExpandAsStated(lines, k + 1, Append(out, lines[k]))

ExpandedAsStated(lines) == ExpandAsStated(lines, 1, <<>>)

\* the program invokes a custom gate that it defines
InvokesCustomGate(prog) ==
    \E k \in 1..Len(prog) :
        /\ ~StartsWith(prog[k], TextGateSp)
        /\ IsDefined(Definitions(prog), Split(prog[k], " ")[1])

\* C24: the translation of a program that invokes custom gates is the
\* translation of the program with every invocation replaced by the
\* statements of the definition, the formal parameters replaced all at once
\* by the operands and nothing else altered
C24_ExpansionAsStated ==
    (qphase = "translated" /\ InvokesCustomGate(qprog))
        => qbody = TranslateKept(KeptTexts(qprog),
                                 ExpandedAsStated(AfterHeader(KeptTexts(qprog))))

(***************************************************************************)
(* C25: the histogram is taken as probabilities exactly when its sum is in *)
(* the closed interval [0.8, 1.2]                                          *)
(***************************************************************************)

\* 0.8 <= sumnum / ValDen <= 1.2
InClosedInterval(sumnum) == 10 * sumnum >= 8 * ValDen /\ 10 * sumnum <= 12 * ValDen

\* C25: the results block is the one of a histogram taken as probabilities
\* when the raw values sum to a number of [0.8, 1.2], both ends included,
\* and the one of a histogram taken as counts otherwise
C25_ClosedInterval ==
    rphase = "done" =>
        rres = ReconcileAs(rdata, rshots, rqubits, InClosedInterval(SumValues(rdata)))

(***************************************************************************)
(* C26: the counts of a probability histogram are rounded to the nearest   *)
(* integer and the difference to shots goes to the first largest count     *)
(***************************************************************************)

\* n/d rounded to the nearest integer, n >= 0 and d > 0 (a half goes up)
RoundNearest(n, d) == (2 * n + d) \div (2 * d)

\* the counts as stated: probability * shots rounded, held as numerators
RoundedCounts(resdata, shots) ==
    [k \in 1..Len(resdata) |-> ValDen * RoundNearest(resdata[k][2] * shots, ValDen)]

\* the position of the first state that holds the largest count
FirstMax(cnts) ==
    CHOOSE k \in 1..Len(cnts) :
        /\ \A j \in 1..Len(cnts) : cnts[j] <= cnts[k]
        /\ \A j \in 1..(k - 1) : cnts[j] < cnts[k]

\* the rounded counts with the difference to shots added to the first
\* largest one
StatedCounts(resdata, shots) ==
    LET cnts == RoundedCounts(resdata, shots)
        sum  == SumValues([k \in 1..Len(cnts) |-> <<k, cnts[k]>>])
    IN  [cnts EXCEPT ![FirstMax(cnts)] = @ + (ValDen * shots - sum)]

\* C26: for a histogram taken as probabilities the call returns counts, and
\* they are the rounded counts with the shortfall or excess added to the
\* first state that holds the largest count
C26_RoundedCounts ==
    (rphase = "done" /\ FlgProbs(SumValues(rdata))) =>
        /\ rres.kind = "ok"
        /\ [k \in 1..Len(rres.counts) |-> rres.counts[k][2]]
              = StatedCounts(rdata, rshots)

(***************************************************************************)
(* C27: validate_circuit leaves the caller's circuit as it was             *)
(***************************************************************************)

\* C27: after a call of validate_circuit, successful or failing, the
\* caller's list holds the entries it held before the call, with the same
\* target and control lists
C27_InputUnchanged ==
    vphase = "validated" => callerCircuit = vin

(***************************************************************************)
(* C28: a rewritten entry keeps the parameters of the entry it was made    *)
(* from                                                                    *)
(***************************************************************************)

\* C28: the record that a successful validate_circuit puts in place of an
\* entry that is no macro carries the parameter field of that entry, with
\* the same values
C28_ParametersKept ==
    (Validated /\ ~vres.error) =>
        \A j \in 1..Len(vin) :
            (Rewritten(j) /\ vin[j].pkey # "none") =>
                /\ vres.circuit[OutPos(vin, j)].pkey = vin[j].pkey
                /\ vres.circuit[OutPos(vin, j)].p = vin[j].p

(***************************************************************************)
(* C29: the submission request follows an accepted validation and carries  *)
(* the validated circuit                                                   *)
(***************************************************************************)

\* the list of operations that submit_job hands to validate_circuit for the
\* circuit c: the translated program, or the "circuit" of the dict
RawCircuit(c) == IF c.py = "str" THEN translate_qasm(c.prog).circuit ELSE c.circuit

\* the payload of c is well formed and validate_circuit accepts its circuit
Accepted(c) ==
    /\ IF c.py = "str"
       THEN HasOPENQASM(c.prog) /\ translate_qasm(c.prog).kind = "body"
       ELSE c.hasbody
    /\ ~validate_circuit(RawCircuit(c)).error

\* C29: every submission request of a call is for a circuit of the call
\* that validate_circuit accepted and carries the "circuit" that
\* validate_circuit returned; a submit_job whose payload is malformed or
\* whose validation fails returns without any request
C29_PostOnlyValidated ==
    /\ \A r \in netlog :
          r.verb = "POST" =>
              \E k \in 1..Len(call.input.items) :
                  /\ Accepted(call.input.items[k])
                  /\ r.body = validate_circuit(RawCircuit(call.input.items[k])).circuit
    /\ (SubmitDone("submit_job") /\ ~Accepted(call.input.items[1])) =>
          /\ netlog = {}
          /\ ret.kind # "data"

\* a submit_job has sent a request whose circuit is not the list that was
\* handed in: the validation rewrote it
C29_Witness ==
    /\ SubmitDone("submit_job") /\ ret.kind = "data"
    /\ \E r \in netlog :
          /\ r.verb = "POST" /\ r.ok
          /\ r.body # RawCircuit(call.input.items[1])
          /\ r.body = validate_circuit(RawCircuit(call.input.items[1])).circuit

(***************************************************************************)
(* C30: what changes the last-referenced-job slot, and what it holds       *)
(***************************************************************************)

\* the submission request of this step was answered ok, for the job id
PostedOk(id) ==
    \E r \in netlog' \ netlog : r.verb = "POST" /\ r.ok /\ r.ids = <<id>>

\* the slot is the service's record of the job id, with or without results
ServiceRecord(slot, id) ==
    /\ Known(id)
    /\ slot.id = id /\ slot.status = svc[id]

\* the call that ends with this step handed in an identifier that
\* set_jobid_dict accepts
SetAccepted == call'.op = "set_jobid_dict" /\ ~SetCheck(call'.arg).error

\* C30: a step changes the slot only if it is a submission request answered
\* ok, the end of a submit_job whose request was answered ok, a status
\* request of retrieve_job answered ok, or a set_jobid_dict that accepts its
\* identifier, and the slot then holds a record of the job of that step; a
\* call that returns a record or self leaves the slot holding that job;
\* cancel_job, a rejected set_jobid_dict and a submit_job or retrieve_job
\* that returns an error without a record leave the slot as it was
C30_SlotWriters ==
    [][ /\ last_jobid_dict' # last_jobid_dict =>
              \/ pc = "post" /\ PostedOk(last_jobid_dict'.id)
              \/ /\ pc = "submit_end"
                 /\ \E r \in netlog : r.verb = "POST" /\ r.ok
                                        /\ r.ids = <<last_jobid_dict'.id>>
              \/ pc = "poll" /\ ServiceRecord(last_jobid_dict', curid)
              \/ /\ pc = "idle" /\ SetAccepted
                 /\ last_jobid_dict'.id \in {call'.arg.id, SetCheck(call'.arg).id}
        /\ (pc' = "done" /\ pc # "done" /\ call'.op \in {"submit_job", "retrieve_job"}
              /\ ret'.kind \in {"data", "merged"})
              => last_jobid_dict' = ret'.data
        /\ (pc = "idle" /\ SetAccepted)
              => last_jobid_dict' \in {IdRecord(call'.arg.id),
                                       IdRecord(SetCheck(call'.arg).id)}
        /\ (pc = "idle" /\ call'.op = "set_jobid_dict" /\ ~SetAccepted)
              => last_jobid_dict' = last_jobid_dict
        /\ (call.op = "cancel_job" \/ call'.op = "cancel_job")
              => last_jobid_dict' = last_jobid_dict
        /\ (pc' = "done" /\ pc \in {"idle", "post"}
              /\ call'.op \in {"submit_job", "retrieve_job"} /\ ret'.kind = "error")
              => last_jobid_dict' = last_jobid_dict
      ]_vars

\* a cancel_job has returned while the slot holds the job that an earlier
\* set_jobid_dict named, after a submission had put another job there
C30_Witness ==
    /\ pc = "done" /\ call.op = "cancel_job" /\ ret.kind = "data"
    /\ last_jobid_dict = IdRecord(Job2)
    /\ svc[Job1] # "none"
    /\ ret.data.id = Job1

====
